---------------------------- MODULE Spec2Model ----------------------------
(***************************************************************************)
(* Service platform: refresh-token session engine (SessionRepository and   *)
(* DefaultAuthManager), job lifecycle engine (JobRepository, redisQueue,   *)
(* workerPool, WorkerService retry scheduler, JobManager) and SQS listener *)
(* (Listener, JobManagerBridge).                                           *)
(*                                                                         *)
(* The specifications of the module:                                       *)
(*   SessSpec        - concurrent Login / RefreshToken / Logout callers    *)
(*                     over the sessions table, every store statement its  *)
(*                     own step (Spec is SessSpec);                        *)
(*   JobSpec         - CreateJob, the worker loop and the retry scheduler  *)
(*                     over the jobs table and the Redis keys, every store *)
(*                     and queue call free to fail;                        *)
(*   ReliableJobSpec - the same engine with a database and a Redis that    *)
(*                     never fail, under weak fairness of the goroutines;  *)
(*   FifoSpec        - callers enqueueing several jobs and the workers     *)
(*                     taking them, with no failure;                       *)
(*   IngestSpec      - producers and the listener's pollMessages over the  *)
(*                     broker, the store and the queue, every call free to *)
(*                     fail;                                               *)
(*   ListenerSpec    - IngestSpec together with the workers;               *)
(*   ShutdownSpec    - the worker pool with callers creating jobs and a    *)
(*                     call of Stop, under weak fairness of the goroutines;*)
(*   QueueSpec       - the redisQueue operations called one at a time      *)
(*                     against a broker that may fail an attempt;          *)
(*   PendingSpec     - one call of GetPendingJobs over any small table;    *)
(*   RetrySpec       - the retry scheduler over any small table of failed  *)
(*                     and retrying jobs, every call free to fail;         *)
(*   BackoffSpec     - one call of each retry-delay function on any        *)
(*                     attempts value, in 64-bit arithmetic;               *)
(*   RefreshSpec     - logins and refreshes of the rotating manager with   *)
(*                     room for two refreshes of one token;                *)
(*   StatsSpec       - the workers, the stats collector and GetStats       *)
(*                     around statsMutex;                                  *)
(*   ServiceSpec     - WorkerService.Start shutting the pool down after    *)
(*                     its context is cancelled;                           *)
(*   LifecycleSpec   - Listener.Start, Listener.Stop and the pollers,      *)
(*                     under weak fairness of the goroutines.              *)
(***************************************************************************)
EXTENDS Integers, Sequences, FiniteSets, TLC

(***************************************************************************)
(* Bounds of the model.                                                    *)
(***************************************************************************)
MaxTokens == 2
MaxTime == 2
\* refresh tokens issued when concurrent refreshes of one token are explored
MaxRefreshTokens == 3

MaxJobs == 1
MaxQueued == 2
MaxMessages == 2
MaxDeliveries == 2
MaxAttemptsInput == 66
MaxRows == 2

Callers == {"c1", "c2"}
Users == {"u1", "u2"}
Workers == {"w1", "w2"}

VARIABLES
    variant,    \* which DefaultAuthManager.RefreshToken the build holds
    now,        \* time.Now()
    sessions,   \* the sessions table, rows in insertion order
    issued,     \* exp claim of the refresh JWTs signed so far, indexed by handle
    pc,         \* per caller: position inside the running manager call
    call,       \* per caller: the locals of the running call
    solo,       \* per caller: no other caller has stepped since its Insert began
    loggedOut   \* handles R for which Logout(R) returned nil

sessVars == <<variant, now, sessions, issued, pc, call, solo, loggedOut>>

VARIABLES
    jobs,           \* the jobs table, indexed by job id
    queue,          \* the Redis list {jobs}:queue, head (LPUSH side) first
    processing,     \* members of the Redis sorted set {jobs}:processing
    retrySchedule,  \* members of the Redis sorted set {jobs}:retry_schedule
    worker,         \* per worker goroutine: position, dequeued job copy, jobErr
    stats,          \* workerPool.stats
    ticker,         \* the retry scheduler's ticker: "waiting" or "due"
    tally,          \* per job: handler invocations and counter increments made for it
    reply           \* the request and the result of the latest CreateJob call

jobVars == <<jobs, queue, processing, retrySchedule, worker, stats, ticker, tally, reply>>

VARIABLES
    broker,         \* the SQS queue: per message id its body, whether it was
                    \* deleted, and what the listener did with it last
    listener        \* how many messages the listener has received, and the
                    \* batch it received last

busVars == <<broker, listener>>

VARIABLES
    delay,          \* a call of the two retry-delay functions: its inputs and
                    \* what each function returned
    pool,           \* the worker pool's context, its stats collector and the
                    \* call of Stop
    rpc,            \* the last redisQueue operation called directly: what the
                    \* broker answers to successive attempts, how many
                    \* attempts the operation made and whether it succeeded
    fetch,          \* a call of GetPendingJobs: its limit and what it returned
    sweep           \* the results of the calls the retry scheduler made on
                    \* its last tick

auxVars == <<delay, pool, rpc, fetch, sweep>>

VARIABLES
    service,        \* WorkerService.Start: the root context, where Start is,
                    \* and its retry-scheduler and health-monitor goroutines
    lsn,            \* the SQS Listener: its running flag, where Start and a
                    \* caller of Stop are, the polling goroutines and the
                    \* context Start was given
    mutex           \* workerPool.statsMutex and the goroutines that use it

ctlVars == <<service, lsn, mutex>>

vars == <<sessVars, jobVars, busVars, auxVars, ctlVars>>

(***************************************************************************)
(* Errors of the auth manager.                                             *)
(***************************************************************************)
ErrInvalidRefreshToken == "invalid refresh token"
ErrRefreshTokenExpired == "refresh token has expired"
ErrRefreshTokenRevoked == "refresh token has been revoked"
\* Logout's wrapping of a RevokeByToken error
ErrRevokeSession == "failed to revoke session"
NoErr == "nil"

(***************************************************************************)
(* Tokens.  A refresh token is a signed envelope around a random handle;   *)
(* the store keeps only the hash of the handle.                            *)
(***************************************************************************)
\* jwt.refresh_expiration, in clock units
RefreshExpiration == 1

hash(rawValue) == <<"sha256", rawValue>>

\* a token whose signature does not verify
ForgedToken == [sig |-> FALSE, handle |-> 0, exp |-> MaxTime]
\* an access token: signed, but RefreshTokenBase64 is nil
AccessOnlyToken == [sig |-> TRUE, handle |-> 0, exp |-> MaxTime]

RefreshTokenOf(h) == [sig |-> TRUE, handle |-> h, exp |-> issued[h]]

\* A refresh token is 32 random bytes: nobody can present one before the call
\* that generated it has handed it back.  (A token whose createSession failed
\* is never handed out; presenting it is presenting a signed token that has no
\* session row.)
Undelivered == {call[c].new : c \in {d \in Callers : call[d].new # call[d].old}}

TokenInputs ==
    {RefreshTokenOf(h) : h \in (DOMAIN issued) \ Undelivered}
        \cup {ForgedToken, AccessOnlyToken}

\* jwt.ValidateToken: signature and exp claim
ValidateToken(token) == token.sig /\ now <= token.exp

\* the guard both Logout and RefreshToken put on the claims
ClaimsUsable(token) == ValidateToken(token) /\ token.handle # 0

\* the handle and the exp claim of a fresh refresh token
GenerateRefreshToken == [handle |-> Len(issued) + 1, exp |-> now + RefreshExpiration]

(***************************************************************************)
(* SessionRepository.                                                      *)
(***************************************************************************)
Session(user, token) ==
    [user_id |-> user, token |-> token, revoked |-> FALSE, deleted |-> FALSE,
     expires_at |-> now + RefreshExpiration]

\* rows FindByToken's query matches: token = ? AND deleted_at IS NULL
FindByToken(token) ==
    {i \in DOMAIN sessions : sessions[i].token = token /\ ~sessions[i].deleted}

\* RevokeByToken with the deleted_at filter inverted: it never touches a live row
RevokeByToken_SkipsLive(S, token) ==
    [i \in DOMAIN S |->
        IF S[i].token = token /\ S[i].deleted
        THEN [S[i] EXCEPT !.revoked = TRUE, !.deleted = TRUE]
        ELSE S[i]]

\* a revoke that takes every live row of the token's user with it
RevokeByToken_WholeUser(S, token) ==
    [i \in DOMAIN S |->
        IF /\ ~S[i].deleted
           /\ \E k \in DOMAIN S : S[k].token = token /\ S[k].user_id = S[i].user_id
        THEN [S[i] EXCEPT !.revoked = TRUE, !.deleted = TRUE]
        ELSE S[i]]

RevokeByToken(S, token) ==
    [i \in DOMAIN S |->
        IF S[i].token = token /\ ~S[i].deleted
        THEN [S[i] EXCEPT !.revoked = TRUE, !.deleted = TRUE]
        ELSE S[i]]

RevokeByUserID(S, userID) ==
    [i \in DOMAIN S |->
        IF S[i].user_id = userID /\ ~S[i].deleted
        THEN [S[i] EXCEPT !.revoked = TRUE, !.deleted = TRUE]
        ELSE S[i]]

\* rows of a user that are neither revoked nor soft-deleted
ActiveRows(S, user) ==
    {i \in DOMAIN S : S[i].user_id = user /\ ~S[i].revoked /\ ~S[i].deleted}

(***************************************************************************)
(* DefaultAuthManager.validateSession on a hashed token.                   *)
(***************************************************************************)
validateSession(token) ==
    LET found == FindByToken(token) IN
    IF found = {} THEN ErrInvalidRefreshToken
    ELSE LET session == sessions[CHOOSE i \in found : TRUE] IN
         IF session.revoked THEN ErrRefreshTokenRevoked
         ELSE IF session.expires_at < now THEN ErrRefreshTokenExpired
         ELSE NoErr

\* what RefreshToken answers before it issues anything: claims, then session
RefreshCheck(token) ==
    IF ~ClaimsUsable(token) THEN ErrInvalidRefreshToken
    ELSE validateSession(hash(token.handle))

SessionUser(token) == sessions[CHOOSE i \in FindByToken(token) : TRUE].user_id

(***************************************************************************)
(* Bookkeeping shared by the caller steps.                                 *)
(***************************************************************************)
\* WorkerService.Start after it has started its three goroutines
RunningService ==
    [cancelled |-> FALSE, start |-> "running", scheduler |-> "running",
     monitor |-> "running"]

\* sqs.NewListener: not running, nothing sent on stopCh, no goroutine yet
Pollers == {"p1", "p2"}
NewListener ==
    [running |-> FALSE, cancelled |-> FALSE, start |-> "idle", stop |-> "idle",
     poller |-> [k \in Pollers |-> "none"]]

\* statsMutex unlocked and nobody in a call
Threads == Workers \cup {"collector", "monitor"}
NewMutex ==
    [writer |-> "none", readers |-> {}, at |-> [t \in Threads |-> "out"],
     QueueDepths |-> {}]

\* before: the session rows when the call started
NoCall == [op |-> "none", user |-> "", old |-> 0, new |-> 0, before |-> <<>>]

CtlStart ==
    /\ service = RunningService
    /\ lsn = NewListener
    /\ mutex = NewMutex

\* a step of caller c ends the "ran alone" status of every other caller
Disturb(c, mine) == [d \in Callers |-> IF d = c THEN mine ELSE FALSE]

Return(c) ==
    /\ pc' = [pc EXCEPT ![c] = "idle"]
    /\ call' = [call EXCEPT ![c] = NoCall]
    /\ solo' = Disturb(c, FALSE)

SessStart ==
    /\ now = 0
    /\ sessions = <<>>
    /\ issued = <<>>
    /\ pc = [c \in Callers |-> "idle"]
    /\ call = [c \in Callers |-> NoCall]
    /\ solo = [c \in Callers |-> FALSE]
    /\ loggedOut = {}

(***************************************************************************)
(* DefaultAuthManager.Login up to createSession's GenerateRefreshToken.    *)
(* The user lookup and the password check read the users table only; a     *)
(* wrong password returns before anything is written.                      *)
(***************************************************************************)
LoginUpTo(c, cap) ==
    /\ pc[c] = "idle"
    /\ Len(issued) < cap
    /\ \E user \in Users :
         /\ issued' = Append(issued, GenerateRefreshToken.exp)
         /\ call' = [call EXCEPT ![c] =
                      [op |-> "login", user |-> user, old |-> 0,
                       new |-> GenerateRefreshToken.handle, before |-> sessions]]
    /\ solo' = Disturb(c, TRUE)
    /\ pc' = [pc EXCEPT ![c] = "ins_revoke_token"]
    /\ UNCHANGED <<variant, now, sessions, loggedOut>>
    /\ UNCHANGED <<jobVars, busVars, auxVars, ctlVars>>

Login(c) == LoginUpTo(c, MaxTokens)

(***************************************************************************)
(* DefaultSessionRepository.Insert, one step per statement.  The errors of *)
(* the two revoke statements are discarded by the code.                    *)
(***************************************************************************)
InsertRevokeByToken(c) ==
    /\ pc[c] = "ins_revoke_token"
    /\ \E ok \in BOOLEAN :
         sessions' = IF ok THEN RevokeByToken(sessions, hash(call[c].new)) ELSE sessions
    /\ pc' = [pc EXCEPT ![c] = "ins_revoke_user"]
    /\ solo' = Disturb(c, solo[c])
    /\ UNCHANGED <<variant, now, issued, call, loggedOut>>
    /\ UNCHANGED <<jobVars, busVars, auxVars, ctlVars>>

InsertRevokeByUserID(c) ==
    /\ pc[c] = "ins_revoke_user"
    /\ \E ok \in BOOLEAN :
         sessions' = IF ok THEN RevokeByUserID(sessions, call[c].user) ELSE sessions
    /\ pc' = [pc EXCEPT ![c] = "ins_insert"]
    /\ solo' = Disturb(c, solo[c])
    /\ UNCHANGED <<variant, now, issued, call, loggedOut>>
    /\ UNCHANGED <<jobVars, busVars, auxVars, ctlVars>>

\* the INSERT statement; token is UNIQUE over all rows, soft-deleted ones too.
\* On an error createSession and its caller return it.
InsertRow(c) ==
    /\ pc[c] = "ins_insert"
    /\ \E ok \in BOOLEAN :
         IF ok /\ ~(\E i \in DOMAIN sessions : sessions[i].token = hash(call[c].new))
         THEN /\ sessions' = Append(sessions, Session(call[c].user, hash(call[c].new)))
              /\ pc' = [pc EXCEPT ![c] = "inserted"]
              /\ solo' = Disturb(c, solo[c])
              /\ call' = call
         ELSE /\ sessions' = sessions
              /\ Return(c)
    /\ UNCHANGED <<variant, now, issued, loggedOut>>
    /\ UNCHANGED <<jobVars, busVars, auxVars, ctlVars>>

\* Login after createSession returned the token: build the response
LoginReturn(c) ==
    /\ pc[c] = "inserted"
    /\ call[c].op = "login"
    /\ Return(c)
    /\ UNCHANGED <<variant, now, sessions, issued, loggedOut>>
    /\ UNCHANGED <<jobVars, busVars, auxVars, ctlVars>>

(***************************************************************************)
(* DefaultAuthManager.RefreshToken.                                        *)
(* "rotating": validate, createSession, RevokeByToken(old).                *)
(* "static":   validateSession only; the request's token is returned.      *)
(***************************************************************************)
RefreshTokenRotatingUpTo(c, cap) ==
    /\ variant = "rotating"
    /\ pc[c] = "idle"
    /\ \E token \in TokenInputs, served \in BOOLEAN :
         \* ~served: FindByID, generateUserAccessToken or GenerateRefreshToken
         \* returns an error
         IF RefreshCheck(token) # NoErr \/ ~served
         THEN /\ Return(c)
              /\ UNCHANGED issued
         ELSE /\ Len(issued) < cap
              /\ issued' = Append(issued, GenerateRefreshToken.exp)
              /\ call' = [call EXCEPT ![c] =
                           [op |-> "refresh", user |-> SessionUser(hash(token.handle)),
                            old |-> token.handle, new |-> GenerateRefreshToken.handle,
                            before |-> sessions]]
              /\ solo' = Disturb(c, TRUE)
              /\ pc' = [pc EXCEPT ![c] = "ins_revoke_token"]
    /\ UNCHANGED <<variant, now, sessions, loggedOut>>
    /\ UNCHANGED <<jobVars, busVars, auxVars, ctlVars>>

RefreshTokenRotating(c) == RefreshTokenRotatingUpTo(c, MaxTokens)

\* the trailing RevokeByToken(oldHashed), its error discarded
RefreshRevokeOld(c) ==
    /\ pc[c] = "inserted"
    /\ call[c].op = "refresh"
    /\ \E ok \in BOOLEAN :
         sessions' = IF ok THEN RevokeByToken(sessions, hash(call[c].old)) ELSE sessions
    /\ pc' = [pc EXCEPT ![c] = "refreshed"]
    /\ solo' = Disturb(c, solo[c])
    /\ UNCHANGED <<variant, now, issued, call, loggedOut>>
    /\ UNCHANGED <<jobVars, busVars, auxVars, ctlVars>>

RefreshTokenStatic(c) ==
    /\ variant = "static"
    /\ pc[c] = "idle"
    /\ \E token \in TokenInputs :
         IF RefreshCheck(token) # NoErr
         THEN Return(c)
         ELSE /\ call' = [call EXCEPT ![c] =
                           [op |-> "refresh", user |-> SessionUser(hash(token.handle)),
                            old |-> token.handle, new |-> token.handle,
                            before |-> sessions]]
              /\ solo' = Disturb(c, FALSE)
              /\ pc' = [pc EXCEPT ![c] = "refreshed"]
    /\ UNCHANGED <<variant, now, sessions, issued, loggedOut>>
    /\ UNCHANGED <<jobVars, busVars, auxVars, ctlVars>>

\* RefreshToken returns the response that carries refresh token call[c].new
RefreshReturn(c) ==
    /\ pc[c] = "refreshed"
    /\ Return(c)
    /\ UNCHANGED <<variant, now, sessions, issued, loggedOut>>
    /\ UNCHANGED <<jobVars, busVars, auxVars, ctlVars>>

(***************************************************************************)
(* DefaultAuthManager.Logout.                                              *)
(***************************************************************************)
\* a Logout that checks the session row the way RefreshToken does
LogoutResult_ValidatesSession(token, ok) ==
    IF RefreshCheck(token) # NoErr THEN RefreshCheck(token)
    ELSE IF ~ok THEN ErrRevokeSession
    ELSE NoErr

\* what Logout returns for a token when the UPDATE succeeds (ok) or fails
LogoutResult(token, ok) ==
    IF ~ClaimsUsable(token) THEN ErrInvalidRefreshToken
    ELSE IF ~ok THEN ErrRevokeSession
    ELSE NoErr

\* the session rows Logout leaves
LogoutRows(S, token, ok) ==
    IF ClaimsUsable(token) /\ ok THEN RevokeByToken(S, hash(token.handle)) ELSE S

Logout(c) ==
    /\ pc[c] = "idle"
    /\ \E token \in TokenInputs, ok \in BOOLEAN :
         /\ sessions' = LogoutRows(sessions, token, ok)
         /\ loggedOut' = IF LogoutResult(token, ok) = NoErr
                         THEN loggedOut \cup {token.handle}
                         ELSE loggedOut
    /\ Return(c)
    /\ UNCHANGED <<variant, now, issued>>
    /\ UNCHANGED <<jobVars, busVars, auxVars, ctlVars>>

\* The wall clock advances by one refresh-expiration period.  A manager call
\* lasts far less than one period, so the clock moves between calls.
SessTick ==
    /\ now < MaxTime
    /\ \A c \in Callers : pc[c] = "idle"
    /\ now' = now + 1
    /\ UNCHANGED <<variant, sessions, issued, pc, call, solo, loggedOut>>
    /\ UNCHANGED <<jobVars, busVars, auxVars, ctlVars>>

(***************************************************************************)
(* Job lifecycle engine.                                                   *)
(***************************************************************************)
Pending == "pending"
Processing == "processing"
Completed == "completed"
Failed == "failed"
Retrying == "retrying"

InitClaim == "init_claim"
CompleteClaim == "complete_claim"
KYCVerification == "kyc_verification"
\* a test handler registered through JobHandlerRegistry.Register whose Handle
\* always returns errors.New("boom")
Boom == "boom"
\* a test handler registered the same way whose Handle returns an error for a
\* job that has not failed yet and nil afterwards
Flaky == "flaky"
\* a job type no handler is registered for
Unknown == "unknown"

Registered == {InitClaim, CompleteClaim, KYCVerification, Boom, Flaky}

PriorityLow == 0
PriorityNormal == 1
PriorityHigh == 2
PriorityCritical == 3

DefaultMaxAttempts == 3
\* Time is counted in units of five minutes and every stored timestamp is kept
\* relative to the present instant: time.Now() is 0, a timestamp written one
\* unit ago is -1.  processRetryableJobs looks one unit (five minutes) back.
Now == 0
RetryAge == 1
\* No statement tells two timestamps older than the cutoff apart
Oldest == Now - (RetryAge + 1)

\* a nullable value is the set of its values: {} is NULL (a nil map, a NULL
\* timestamp)
Null == {}

\* a Go map is the function from its keys to its values
EmptyMap == <<>>
UserPayload == [user_id |-> "u1"]

\* manager.CreateJobRequest values the callers of the API send
CreateJobRequest(type, priority, payload, maxAttempts, scheduledAt) ==
    [Type |-> type, Priority |-> priority, Payload |-> payload,
     MaxAttempts |-> maxAttempts, ScheduledAt |-> scheduledAt]

CreateJobRequests ==
    { CreateJobRequest("", PriorityNormal, {UserPayload}, 1, Null),
      CreateJobRequest(InitClaim, PriorityHigh, {UserPayload}, 3, Null),
      CreateJobRequest(InitClaim, PriorityLow, Null, 0, Null),
      CreateJobRequest(Flaky, PriorityNormal, {EmptyMap}, 2, Null),
      CreateJobRequest(Boom, PriorityCritical, Null, 1, {Now + 1}),
      CreateJobRequest(Boom, PriorityNormal, {UserPayload}, 2, Null),
      CreateJobRequest(Unknown, PriorityNormal, {UserPayload}, -1, Null),
      CreateJobRequest(Unknown, PriorityLow, Null, 1, Null) }

\* a timestamp after one more unit of time has passed
Elapse(T) == {IF t - 1 < Oldest THEN Oldest ELSE t - 1 : t \in T}

\* entity.Job as CreateJob builds it
Job(id, type, priority, payload, maxAttempts, scheduledAt) ==
    [id |-> id, type |-> type, priority |-> priority, payload |-> payload,
     status |-> Pending, attempts |-> 0,
     max_attempts |-> maxAttempts, error |-> "",
     scheduled_at |-> scheduledAt,
     started_at |-> Null, completed_at |-> Null, updated_at |-> Null,
     deleted_at |-> Null]

\* json.Marshal on Enqueue, json.Unmarshal on Dequeue: the worker receives the
\* field values the entity had when it was enqueued
Marshal(job) ==
    [id |-> job.id, type |-> job.type, attempts |-> job.attempts,
     max_attempts |-> job.max_attempts]

NoJob == [id |-> 0, type |-> "", attempts |-> 0, max_attempts |-> 0]

\* CreateJob's errors: "nil" is a nil error
ErrTypeRequired == "job type is required"
ErrCreateFailed == "failed to create job"
ErrEnqueueFailed == "failed to enqueue job"

NoReply == [req |-> CreateJobRequest("", PriorityLow, Null, 0, Null), err |-> NoErr, row |-> 0]

\* GetPendingJobs has not been called
NoFetch == [limit |-> 1, called |-> FALSE, rows |-> <<>>]

\* a tick of the retry scheduler that found no job to retry (also the value
\* before the first tick)
NoSweep == [fetched |-> TRUE, results |-> <<>>]

IdleWorker == [pc |-> "idle", job |-> NoJob, jobErr |-> "", stored |-> FALSE]

(***************************************************************************)
(* jobRepository: each statement as a function of the table.  The          *)
(* updated_at column is written by every UPDATE.                           *)
(***************************************************************************)
UpdateStatus(J, id, status, errorMsg) ==
    IF J[id].deleted_at # Null THEN J ELSE
    [J EXCEPT ![id] = [@ EXCEPT !.status = status,
                                 !.updated_at = {Now},
                                 !.error = IF errorMsg # "" THEN errorMsg ELSE @]]

\* UpdateJobToProcessing that leaves started_at alone
UpdateJobToProcessing_NoStart(J, id, startedAt) ==
    IF J[id].deleted_at # Null THEN J ELSE
    [J EXCEPT ![id] = [@ EXCEPT !.status = Processing,
                                 !.updated_at = {Now}]]

UpdateJobToProcessing(J, id, startedAt) ==
    IF J[id].deleted_at # Null THEN J ELSE
    [J EXCEPT ![id] = [@ EXCEPT !.status = Processing,
                                 !.started_at = {startedAt},
                                 !.updated_at = {Now}]]

\* UpdateJobToCompleted that leaves completed_at alone
UpdateJobToCompleted_NoTime(J, id, completedAt) ==
    IF J[id].deleted_at # Null THEN J ELSE
    [J EXCEPT ![id] = [@ EXCEPT !.status = Completed,
                                 !.updated_at = {Now}]]

UpdateJobToCompleted(J, id, completedAt) ==
    IF J[id].deleted_at # Null THEN J ELSE
    [J EXCEPT ![id] = [@ EXCEPT !.status = Completed,
                                 !.completed_at = {completedAt},
                                 !.updated_at = {Now}]]

\* UpdateJobToFailed that counts the failure twice
UpdateJobToFailed_Twice(J, id, errorMsg) ==
    IF J[id].deleted_at # Null THEN J ELSE
    [J EXCEPT ![id] = [@ EXCEPT !.status = Failed,
                                 !.attempts = @ + 2,
                                 !.updated_at = {Now},
                                 !.error = IF errorMsg # "" THEN errorMsg ELSE @]]

UpdateJobToFailed(J, id, errorMsg) ==
    IF J[id].deleted_at # Null THEN J ELSE
    [J EXCEPT ![id] = [@ EXCEPT !.status = Failed,
                                 !.attempts = @ + 1,
                                 !.updated_at = {Now},
                                 !.error = IF errorMsg # "" THEN errorMsg ELSE @]]

\* UpdateJobToRetrying that does not count the failure
UpdateJobToRetrying_NoCount(J, id, errorMsg) ==
    IF J[id].deleted_at # Null THEN J ELSE
    [J EXCEPT ![id] = [@ EXCEPT !.status = Retrying,
                                 !.updated_at = {Now},
                                 !.error = IF errorMsg # "" THEN errorMsg ELSE @]]

UpdateJobToRetrying(J, id, errorMsg) ==
    IF J[id].deleted_at # Null THEN J ELSE
    [J EXCEPT ![id] = [@ EXCEPT !.status = Retrying,
                                 !.attempts = @ + 1,
                                 !.updated_at = {Now},
                                 !.error = IF errorMsg # "" THEN errorMsg ELSE @]]

\* rows in the order ORDER BY priority DESC, updated_at ASC gives them (rows
\* equal in both are taken by id)
RECURSIVE OrderByUpdatedAt(_, _)
OrderByUpdatedAt(J, ids) ==
    IF ids = {} THEN <<>>
    ELSE LET first == CHOOSE i \in ids :
                          \A k \in ids :
                              \/ J[i].priority > J[k].priority
                              \/ /\ J[i].priority = J[k].priority
                                 /\ \A ti \in J[i].updated_at, tk \in J[k].updated_at :
                                        ti < tk \/ (ti = tk /\ i <= k)
         IN <<first>> \o OrderByUpdatedAt(J, ids \ {first})

\* rows in the order ORDER BY priority DESC, created_at ASC gives them: a
\* row's id is its place in the order of creation
RECURSIVE OrderByCreatedAt(_, _)
OrderByCreatedAt(J, ids) ==
    IF ids = {} THEN <<>>
    ELSE LET first == CHOOSE i \in ids :
                          \A k \in ids :
                              \/ J[i].priority > J[k].priority
                              \/ J[i].priority = J[k].priority /\ i <= k
         IN <<first>> \o OrderByCreatedAt(J, ids \ {first})

\* LIMIT n for n >= 1
Limit(rows, n) == SubSeq(rows, 1, IF Len(rows) < n THEN Len(rows) ELSE n)

\* GetPendingJobs without the scheduled_at condition
GetPendingJobs_AnySchedule(J, limit) ==
    Limit(OrderByCreatedAt(J, {i \in DOMAIN J :
                                  /\ J[i].status = Pending
                                  /\ J[i].deleted_at = Null}), limit)

\* the ids of the rows GetPendingJobs returns, in order
GetPendingJobs(J, limit) ==
    Limit(OrderByCreatedAt(J, {i \in DOMAIN J :
                                  /\ J[i].status = Pending
                                  /\ J[i].deleted_at = Null
                                  /\ \/ J[i].scheduled_at = Null
                                     \/ \E t \in J[i].scheduled_at : t <= Now}),
          limit)

\* GetRetryableJobs without the status filter
GetRetryableJobs_AnyStatus(J, beforeTime) ==
    OrderByUpdatedAt(J, {i \in DOMAIN J :
                            /\ J[i].deleted_at = Null
                            /\ J[i].attempts < J[i].max_attempts
                            /\ \E t \in J[i].updated_at : t < beforeTime})

GetRetryableJobs(J, beforeTime) ==
    OrderByUpdatedAt(J, {i \in DOMAIN J :
                            /\ J[i].status = Failed
                            /\ J[i].deleted_at = Null
                            /\ J[i].attempts < J[i].max_attempts
                            /\ \E t \in J[i].updated_at : t < beforeTime})

(***************************************************************************)
(* redisQueue.                                                             *)
(***************************************************************************)
\* an Enqueue that pushes at the end BRPOP takes from
Enqueue_AtTail(Q, job) == Q \o <<Marshal(job)>>

\* LPUSH of the marshalled job
Enqueue(Q, job) == <<Marshal(job)>> \o Q

\* job.ScheduledAt != nil && job.ScheduledAt.After(time.Now())
After(scheduledAt, t) == \E at \in scheduledAt : at > t

\* the ZADD of Enqueue: a job scheduled after the present instant is also
\* put in the retry set
EnqueueRetrySet(R, job) ==
    IF After(job.scheduled_at, Now) THEN R \cup {job.id} ELSE R

\* BRPOP takes the element at the tail
DequeuedJob(Q) == Q[Len(Q)]

\* a pop that leaves the element on the list
DequeueRest_Keeps(Q) == Q

DequeueRest(Q) == SubSeq(Q, 1, Len(Q) - 1)

MarkProcessing(P, jobID) == P \cup {jobID}
\* a ZREM that removes nothing
MarkCompleted_Keeps(P, jobID) == P

MarkCompleted(P, jobID) == P \ {jobID}

(***************************************************************************)
(* workerPool helpers.                                                     *)
(***************************************************************************)
incrementActiveWorkers(s) ==
    [s EXCEPT !.ActiveWorkers = @ + 1, !.ProcessingJobs = @ + 1]

\* a decrement that forgets ProcessingJobs
decrementActiveWorkers_ActiveOnly(s) ==
    [s EXCEPT !.ActiveWorkers = IF @ > 0 THEN @ - 1 ELSE @]

decrementActiveWorkers(s) ==
    [s EXCEPT !.ActiveWorkers = IF @ > 0 THEN @ - 1 ELSE @,
              !.ProcessingJobs = IF @ > 0 THEN @ - 1 ELSE @]

incrementTotalProcessed(s) == [s EXCEPT !.TotalProcessed = @ + 1]

incrementTotalFailed(s) == [s EXCEPT !.TotalFailed = @ + 1]

RECURSIVE Pow2(_)
Pow2(n) == IF n <= 0 THEN 1 ELSE 2 * Pow2(n - 1)

(***************************************************************************)
(* time.Duration is an int64 count of nanoseconds.  A 64-bit word is the   *)
(* tuple of its eight bytes, lowest first (the top bit of the eighth byte  *)
(* is the sign); arithmetic is modulo 2^64, as Go's is.                    *)
(***************************************************************************)
Zero == <<0, 0, 0, 0, 0, 0, 0, 0>>
MinInt64 == <<0, 0, 0, 0, 0, 0, 0, 128>>
MaxInt64 == <<255, 255, 255, 255, 255, 255, 255, 127>>

\* the word of an integer 0 <= n < 2^31
Word(n) ==
    <<n % 256, (n \div 256) % 256, (n \div 65536) % 256, n \div 16777216,
      0, 0, 0, 0>>

\* the word of 2^n for 0 <= n <= 63
PowerOfTwo(n) == [k \in 1..8 |-> IF k = (n \div 8) + 1 THEN Pow2(n % 8) ELSE 0]

\* the sum of the byte products A[i] * B[k + 1 - i] for i = 1..n
RECURSIVE Column(_, _, _, _)
Column(A, B, k, n) ==
    IF n = 0 THEN 0 ELSE A[n] * B[k + 1 - n] + Column(A, B, k, n - 1)

\* bytes k..8 of the product, carry coming in from the bytes below
RECURSIVE MulBytes(_, _, _, _)
MulBytes(A, B, k, carry) ==
    IF k > 8 THEN <<>>
    ELSE CHOOSE bytes \in
            {<<sum % 256>> \o MulBytes(A, B, k + 1, sum \div 256) :
                sum \in {Column(A, B, k, k) + carry}} : TRUE

\* the product modulo 2^64; each operand is evaluated once
Mul(A, B) ==
    CHOOSE product \in {MulBytes(a, b, 1, 0) : a \in {A}, b \in {B}} : TRUE

Negative(W) == W[8] >= 128

\* A > B for words read as unsigned numbers, deciding by bytes k..1
RECURSIVE Above(_, _, _)
Above(A, B, k) ==
    IF k = 0 THEN FALSE
    ELSE IF A[k] # B[k] THEN A[k] > B[k]
    ELSE Above(A, B, k - 1)

\* A > B for signed words
Greater(A, B) ==
    \E a \in {A}, b \in {B} :
       IF Negative(a) # Negative(b) THEN Negative(b) ELSE Above(a, b, 8)

\* time.Second, and n * time.Second for 0 <= n < 2^31
Second == Word(1000000000)
Seconds(n) == Mul(Word(n), Second)

\* what the conversion of a float64 outside the int64 range to int64 may
\* give: the Go specification leaves the value to the implementation (amd64
\* gives the smallest int64, arm64 the largest)
OutOfRange == {MinInt64, MaxInt64}

\* time.Duration(math.Pow(2, float64(n))): 2^n is exact in float64; a
\* fraction is truncated to 0; from 2^63 on the value does not fit and the
\* conversion gives conv
PowDuration(n, conv) ==
    IF n < 0 THEN Zero
    ELSE IF n <= 62 THEN PowerOfTwo(n)
    ELSE conv

\* the two durations of workerPool.calculateRetryDelay: 30 * time.Second
\* and 10 * time.Minute
baseDelay == Seconds(30)
maxDelay == Seconds(600)

\* workerPool.calculateRetryDelay
calculateRetryDelay(attempts, conv) ==
    CHOOSE delayed \in
        {IF Greater(backoff, maxDelay) THEN maxDelay ELSE backoff :
            backoff \in {Mul(PowDuration(attempts - 1, conv), baseDelay)}} : TRUE

\* sqs.DefaultConfig().Message
BaseRetryDelay == Seconds(30)
MaxRetryDelay == Seconds(900)

\* sqs.Queue.CalculateRetryDelay
CalculateRetryDelay(attempt, conv) ==
    IF attempt <= 0 THEN BaseRetryDelay
    ELSE CHOOSE delayed \in
            {IF Greater(d, MaxRetryDelay) THEN MaxRetryDelay ELSE d :
                d \in {Mul(BaseRetryDelay, PowDuration(attempt - 1, conv))}} : TRUE

\* a lookup failure that carries no text
NoHandlerError_Empty(type) == ""

\* fmt.Errorf("no handler found for job type: %s", jobEntity.Type)
NoHandlerError(type) ==
    CASE type = Unknown -> "no handler found for job type: unknown"
      [] OTHER -> "no handler found for job type"

\* JobHandler.Handle of the registered handlers: "" is a nil error
HandlerResult(job) ==
    CASE job.type = Boom -> "boom"
      [] job.type = Flaky -> IF job.attempts = 0 THEN "flaky" ELSE ""
      [] job.type = KYCVerification ->
            IF job.attempts > 0 /\ job.attempts % 2 = 0
            THEN "KYC service temporarily unavailable"
            ELSE ""
      [] OTHER -> ""

(***************************************************************************)
(* Contexts.  A context is modelled by whether it is cancelled; a database *)
(* or Redis call made under a cancelled context returns an error.          *)
(***************************************************************************)
\* the pool after Start: p.ctx is live, the stats collector runs and Stop has
\* not been called
RunningPool ==
    [cancelled |-> FALSE, collector |-> "running", stop |-> "none",
     expired |-> FALSE]

\* processJob's opCtx, derived from context.Background()
opCtx(P) == FALSE

\* a cleanup context derived from the pool's context
cleanupCtx_FromPool(P) == P.cancelled

\* the cleanupCtx of handleJobSuccess and handleJobFailure, derived from
\* context.Background(): cancelling the pool does not cancel it
cleanupCtx(P) == FALSE

\* the result of a call made under context ctx whose backend answers ok
Call(ctx, ok) == ~ctx /\ ok

JobStart ==
    /\ pool = RunningPool
    /\ jobs = <<>>
    /\ queue = <<>>
    /\ processing = {}
    /\ retrySchedule = {}
    /\ worker = [w \in Workers |-> IdleWorker]
    /\ stats = [ActiveWorkers |-> 0, ProcessingJobs |-> 0,
                TotalProcessed |-> 0, TotalFailed |-> 0]
    /\ ticker = "waiting"
    /\ tally = <<>>
    /\ reply = NoReply

(***************************************************************************)
(* jobManager.CreateJob.  outcomes is the set of results a database or     *)
(* Redis call can have: TRUE for success, FALSE for an error.              *)
(***************************************************************************)
\* CreateJob without its two defaults
JobEntity_NoDefaults(id, req) ==
    Job(id, req.Type, req.Priority,
        IF req.Payload = Null THEN Null ELSE CHOOSE p \in req.Payload : TRUE,
        req.MaxAttempts, req.ScheduledAt)

\* the entity CreateJob builds from a request that passed validation
JobEntity(id, req) ==
    Job(id, req.Type, req.Priority,
        IF req.Payload = Null THEN EmptyMap ELSE CHOOSE p \in req.Payload : TRUE,
        IF req.MaxAttempts <= 0 THEN DefaultMaxAttempts ELSE req.MaxAttempts,
        req.ScheduledAt)

\* the error CreateJob returns
CreateJobError(req, created, enqueued) ==
    IF req.Type = "" THEN ErrTypeRequired
    ELSE IF ~created THEN ErrCreateFailed
    ELSE IF ~enqueued THEN ErrEnqueueFailed
    ELSE NoErr

\* CreateJob whose queue entry appears although Enqueue returned an error
CreateJobResult_EnqueuesAnyway(J, Q, req, created, enqueued) ==
    IF req.Type = "" \/ ~created
    THEN [jobs |-> J, queue |-> Q]
    ELSE [jobs |-> Append(J, JobEntity(Len(J) + 1, req)),
          queue |-> Enqueue(Q, JobEntity(Len(J) + 1, req))]

\* the store and the queue after a CreateJob call on store J and queue Q
CreateJobResult(J, Q, req, created, enqueued) ==
    IF req.Type = "" \/ ~created
    THEN [jobs |-> J, queue |-> Q]
    ELSE [jobs |-> Append(J, JobEntity(Len(J) + 1, req)),
          queue |-> IF enqueued THEN Enqueue(Q, JobEntity(Len(J) + 1, req)) ELSE Q]

\* one more entry per inserted row
Tallied(T, J) ==
    [j \in DOMAIN J |-> IF j \in DOMAIN T THEN T[j]
                         ELSE [invoked |-> 0, failed |-> 0, processed |-> 0]]

\* what the caller of CreateJob gets back; row is the id of the row the call
\* inserted, 0 if it inserted none
Reply(J, req, created, enqueued) ==
    [req |-> req,
     err |-> CreateJobError(req, created, enqueued),
     row |-> IF req.Type = "" \/ ~created THEN 0 ELSE Len(J) + 1]

CreateJob(outcomes) ==
    /\ \E req \in CreateJobRequests, created \in outcomes, enqueued \in outcomes :
         /\ jobs' = CreateJobResult(jobs, queue, req, created, enqueued).jobs
         /\ queue' = CreateJobResult(jobs, queue, req, created, enqueued).queue
         /\ retrySchedule' =
               IF req.Type # "" /\ created /\ enqueued
               THEN EnqueueRetrySet(retrySchedule, JobEntity(Len(jobs) + 1, req))
               ELSE retrySchedule
         /\ tally' = Tallied(tally, jobs')
         /\ reply' = Reply(jobs, req, created, enqueued)
    /\ UNCHANGED <<processing, worker, stats, ticker>>
    /\ UNCHANGED <<sessVars, busVars, auxVars, ctlVars>>

(***************************************************************************)
(* workerPool.runWorker: one loop iteration that dequeued a job.           *)
(***************************************************************************)
runWorker(w) ==
    /\ worker[w].pc = "idle"
    /\ ~pool.cancelled
    /\ queue # <<>>
    /\ worker' = [worker EXCEPT ![w] = [IdleWorker EXCEPT !.pc = "processJob",
                                                           !.job = DequeuedJob(queue)]]
    /\ queue' = DequeueRest(queue)
    /\ stats' = incrementActiveWorkers(stats)
    /\ UNCHANGED <<jobs, processing, retrySchedule, ticker, tally, reply>>
    /\ UNCHANGED <<sessVars, busVars, auxVars, ctlVars>>

\* processJob up to the handler lookup
processJob(w, outcomes) ==
    /\ worker[w].pc = "processJob"
    /\ \E marked \in outcomes, updated \in outcomes :
         IF ~Call(opCtx(pool), marked)
         THEN /\ worker' = [worker EXCEPT ![w].pc = "done"]
              /\ UNCHANGED <<jobs, processing>>
         ELSE /\ processing' = MarkProcessing(processing, worker[w].job.id)
              /\ jobs' = IF Call(opCtx(pool), updated)
                         THEN UpdateJobToProcessing(jobs, worker[w].job.id, Now)
                         ELSE jobs
              /\ worker' = [worker EXCEPT ![w].pc = "Handle"]
    /\ UNCHANGED <<queue, retrySchedule, stats, ticker, tally, reply>>
    /\ UNCHANGED <<sessVars, busVars, auxVars, ctlVars>>

\* handlerRegistry.Get and handler.Handle
Handle(w) ==
    /\ worker[w].pc = "Handle"
    /\ LET job == worker[w].job IN
       IF job.type \notin Registered
       THEN /\ worker' = [worker EXCEPT ![w].pc = "handleJobFailure",
                                        ![w].jobErr = NoHandlerError(job.type)]
            /\ tally' = tally
       ELSE /\ worker' = [worker EXCEPT
                             ![w].pc = IF HandlerResult(job) = ""
                                       THEN "handleJobSuccess"
                                       ELSE "handleJobFailure",
                             ![w].jobErr = HandlerResult(job)]
            /\ tally' = [tally EXCEPT ![job.id].invoked = @ + 1]
    /\ UNCHANGED <<jobs, queue, processing, retrySchedule, stats, ticker, reply>>
    /\ UNCHANGED <<sessVars, busVars, auxVars, ctlVars>>

handleJobSuccess(w, outcomes) ==
    /\ worker[w].pc = "handleJobSuccess"
    /\ LET id == worker[w].job.id IN
       /\ \E u \in outcomes, m \in outcomes :
            LET updated == Call(cleanupCtx(pool), u)
                marked == Call(cleanupCtx(pool), m)
            IN
            /\ jobs' = IF updated THEN UpdateJobToCompleted(jobs, id, Now) ELSE jobs
            /\ processing' = IF marked THEN MarkCompleted(processing, id) ELSE processing
            /\ worker' = [worker EXCEPT ![w].pc = "done", ![w].stored = updated]
       /\ tally' = [tally EXCEPT ![id].processed = @ + 1]
    /\ stats' = incrementTotalProcessed(stats)
    /\ UNCHANGED <<queue, retrySchedule, ticker, reply>>
    /\ UNCHANGED <<sessVars, busVars, auxVars, ctlVars>>

\* redisQueue.MarkFailed runs ZREM and, for a positive delay, ZADD in one
\* TxPipeline
handleJobFailure(w, outcomes) ==
    /\ worker[w].pc = "handleJobFailure"
    /\ LET id == worker[w].job.id
           attempts == worker[w].job.attempts + 1
           final == attempts >= worker[w].job.max_attempts
           \* the conversion is in range up to 2^62
           convs == IF attempts - 1 <= 62 THEN {MinInt64} ELSE OutOfRange
           retryDelays == IF final THEN {Zero}
                          ELSE {calculateRetryDelay(attempts, conv) : conv \in convs}
       IN
       /\ \E u \in outcomes, m \in outcomes, retryDelay \in retryDelays :
            LET updated == Call(cleanupCtx(pool), u)
                marked == Call(cleanupCtx(pool), m)
            IN
            /\ jobs' = IF ~updated THEN jobs
                       ELSE IF final THEN UpdateJobToFailed(jobs, id, worker[w].jobErr)
                       ELSE UpdateJobToRetrying(jobs, id, worker[w].jobErr)
            /\ processing' = IF marked THEN processing \ {id} ELSE processing
            /\ retrySchedule' = IF marked /\ Greater(retryDelay, Zero)
                                THEN retrySchedule \cup {id}
                                ELSE retrySchedule
            /\ worker' = [worker EXCEPT ![w].pc = "done",
                                        ![w].job.attempts = attempts,
                                        ![w].stored = updated]
       /\ tally' = [tally EXCEPT ![id].failed = @ + 1]
    /\ stats' = incrementTotalFailed(stats)
    /\ UNCHANGED <<queue, ticker, reply>>
    /\ UNCHANGED <<sessVars, busVars, auxVars, ctlVars>>

\* runWorker after processJob returned
runWorkerDone(w) ==
    /\ worker[w].pc = "done"
    /\ worker' = [worker EXCEPT ![w] = IdleWorker]
    /\ stats' = decrementActiveWorkers(stats)
    /\ UNCHANGED <<jobs, queue, processing, retrySchedule, ticker, tally, reply>>
    /\ UNCHANGED <<sessVars, busVars, auxVars, ctlVars>>

(***************************************************************************)
(* workerPool.Stop and the goroutines' reaction to the cancelled context.  *)
(***************************************************************************)
\* runWorker returns: the select finds p.ctx done, or Dequeue fails under
\* the cancelled context
runWorkerReturn(w) ==
    /\ worker[w].pc = "idle"
    /\ pool.cancelled
    /\ worker' = [worker EXCEPT ![w].pc = "exited"]
    /\ UNCHANGED <<jobs, queue, processing, retrySchedule, stats, ticker, tally, reply>>
    /\ UNCHANGED <<sessVars, busVars, auxVars, ctlVars>>

\* runStatsCollector returns
runStatsCollector ==
    /\ pool.collector = "running"
    /\ pool.cancelled
    /\ pool' = [pool EXCEPT !.collector = "exited"]
    /\ UNCHANGED <<sessVars, jobVars, busVars, delay, rpc, fetch, sweep, ctlVars>>

\* Stop up to its select: cancel p.ctx and start waiting for the WaitGroup
Stop ==
    /\ pool.stop = "none"
    /\ pool' = [pool EXCEPT !.cancelled = TRUE, !.stop = "waiting"]
    /\ UNCHANGED <<sessVars, jobVars, busVars, delay, rpc, fetch, sweep, ctlVars>>

\* the context of Stop's caller reaches its deadline
StopContextDone ==
    /\ pool.stop = "waiting"
    /\ ~pool.expired
    /\ pool' = [pool EXCEPT !.expired = TRUE]
    /\ UNCHANGED <<sessVars, jobVars, busVars, delay, rpc, fetch, sweep, ctlVars>>

\* a wait that does not count the stats collector
wgWait_WorkersOnly(W, P) ==
    \A w \in Workers : W[w].pc = "exited"

\* p.wg.Wait() has returned: every runWorker and runStatsCollector has run
\* its deferred wg.Done
wgWait(W, P) ==
    /\ \A w \in Workers : W[w].pc = "exited"
    /\ P.collector = "exited"

\* the select of Stop: "nil" when done is closed, "deadline" when the
\* caller's context is done, either when both are
StopReturn ==
    /\ pool.stop = "waiting"
    /\ \E result \in {"nil", "deadline"} :
         /\ result = "nil" => wgWait(worker, pool)
         /\ result = "deadline" => pool.expired
         /\ pool' = [pool EXCEPT !.stop = result]
    /\ UNCHANGED <<sessVars, jobVars, busVars, delay, rpc, fetch, sweep, ctlVars>>

(***************************************************************************)
(* Listener.Start, Listener.Stop and the polling goroutines.  stopCh is    *)
(* unbuffered: Stop's non-blocking send is received only by a Start that   *)
(* is waiting in its select at that moment.                                *)
(***************************************************************************)
\* Start up to the end of its first critical section
ListenerStart ==
    /\ lsn.start = "idle"
    /\ lsn' = IF lsn.running
              THEN [lsn EXCEPT !.start = "returned"]
              ELSE [lsn EXCEPT !.running = TRUE, !.start = "spawn"]
    /\ UNCHANGED <<sessVars, jobVars, busVars, auxVars, service, mutex>>

\* the go statements; Start then blocks in select { ctx.Done(), stopCh }
ListenerSpawn ==
    /\ lsn.start = "spawn"
    /\ lsn' = [lsn EXCEPT !.start = "select",
                          !.poller = [k \in Pollers |-> "check"]]
    /\ UNCHANGED <<sessVars, jobVars, busVars, auxVars, service, mutex>>

\* the context given to Start is cancelled
ListenerContextDone ==
    /\ ~lsn.cancelled
    /\ lsn' = [lsn EXCEPT !.cancelled = TRUE]
    /\ UNCHANGED <<sessVars, jobVars, busVars, auxVars, service, mutex>>

\* the select takes the ctx.Done() case and Start clears the flag
ListenerSelectDone ==
    /\ lsn.start = "select"
    /\ lsn.cancelled
    /\ lsn' = [lsn EXCEPT !.start = "draining", !.running = FALSE]
    /\ UNCHANGED <<sessVars, jobVars, busVars, auxVars, service, mutex>>

\* Start's second select: wg.Wait() has returned, or 30 s have passed
ListenerStartReturn ==
    /\ lsn.start = "draining"
    /\ \E timeout \in BOOLEAN :
         timeout \/ \A k \in Pollers : lsn.poller[k] = "exited"
    /\ lsn' = [lsn EXCEPT !.start = "returned"]
    /\ UNCHANGED <<sessVars, jobVars, busVars, auxVars, service, mutex>>

\* Stop reads the flag under the read lock; it returns nil at once when the
\* flag is false
ListenerStop ==
    /\ lsn.stop = "idle"
    /\ lsn' = [lsn EXCEPT !.stop = IF lsn.running THEN "send" ELSE "idle"]
    /\ UNCHANGED <<sessVars, jobVars, busVars, auxVars, service, mutex>>

\* select { case l.stopCh <- struct{}{}: default: }: the value is taken by a
\* Start waiting in its select, which then clears the flag; otherwise the
\* default case runs and nothing is sent
ListenerStopSend(L) ==
    IF L.start = "select"
    THEN [L EXCEPT !.stop = "idle", !.start = "draining", !.running = FALSE]
    ELSE [L EXCEPT !.stop = "idle"]

ListenerStopReturn ==
    /\ lsn.stop = "send"
    /\ lsn' = ListenerStopSend(lsn)
    /\ UNCHANGED <<sessVars, jobVars, busVars, auxVars, service, mutex>>

\* the head of runWorker's loop: the flag, then the context
ListenerRunWorker(k) ==
    /\ lsn.poller[k] = "check"
    /\ lsn' = [lsn EXCEPT !.poller[k] =
                  IF ~lsn.running \/ lsn.cancelled THEN "exited" ELSE "poll"]
    /\ UNCHANGED <<sessVars, jobVars, busVars, auxVars, service, mutex>>

\* pollMessages has returned (after its pause when it failed)
ListenerPolled(k) ==
    /\ lsn.poller[k] = "poll"
    /\ lsn' = [lsn EXCEPT !.poller[k] = "check"]
    /\ UNCHANGED <<sessVars, jobVars, busVars, auxVars, service, mutex>>

(***************************************************************************)
(* workerPool.statsMutex.  A worker's critical sections (the four counter  *)
(* updates) are single assignments made in the step that reaches them;     *)
(* collectQueueStats and GetStats are followed statement by statement.     *)
(***************************************************************************)
\* Lock() can be granted
Unlocked == mutex.writer = "none" /\ mutex.readers = {}

\* a step of worker w, which blocks at a counter update while the mutex is
\* held
LockedWorkerStep(w) ==
    \/ Unlocked /\ runWorker(w)
    \/ processJob(w, {TRUE})
    \/ Handle(w)
    \/ Unlocked /\ handleJobSuccess(w, {TRUE})
    \/ Unlocked /\ handleJobFailure(w, {TRUE})
    \/ Unlocked /\ runWorkerDone(w)

\* runStatsCollector's ticker fires: collectQueueStats takes the write lock
collectQueueStats ==
    /\ pool.collector = "running"
    /\ mutex.at["collector"] = "out"
    /\ Unlocked
    /\ mutex' = [mutex EXCEPT !.writer = "collector", !.at["collector"] = "locked"]
    /\ UNCHANGED <<sessVars, jobVars, busVars, auxVars, service, lsn>>

\* p.queue.GetQueueDepth: the LLEN command is sent
GetQueueDepth ==
    /\ mutex.at["collector"] = "locked"
    /\ mutex' = [mutex EXCEPT !.at["collector"] = "io"]
    /\ UNCHANGED <<sessVars, jobVars, busVars, auxVars, service, lsn>>

\* the reply arrives; GetPriorityQueues names one queue, so the loop ends and
\* the deferred Unlock runs
GetQueueDepthReturn ==
    /\ mutex.at["collector"] = "io"
    /\ \E ok \in BOOLEAN :
         mutex' = [mutex EXCEPT !.writer = "none",
                                !.at["collector"] = "out",
                                !.QueueDepths = IF ok THEN {Len(queue)} ELSE @]
    /\ UNCHANGED <<sessVars, jobVars, busVars, auxVars, service, lsn>>

\* runHealthMonitor's ticker fires: GetStats takes the read lock
GetStats ==
    /\ mutex.at["monitor"] = "out"
    /\ mutex.writer = "none"
    /\ mutex' = [mutex EXCEPT !.readers = @ \cup {"monitor"}, !.at["monitor"] = "locked"]
    /\ UNCHANGED <<sessVars, jobVars, busVars, auxVars, service, lsn>>

\* GetStats has copied the stats: the deferred RUnlock runs
GetStatsReturn ==
    /\ mutex.at["monitor"] = "locked"
    /\ mutex' = [mutex EXCEPT !.readers = @ \ {"monitor"}, !.at["monitor"] = "out"]
    /\ UNCHANGED <<sessVars, jobVars, busVars, auxVars, service, lsn>>

(***************************************************************************)
(* WorkerService.Start from the cancellation of its context on.  The pool  *)
(* context is derived from the context Start was given.                    *)
(***************************************************************************)
\* the context given to Start is cancelled
ctxDone ==
    /\ ~service.cancelled
    /\ service' = [service EXCEPT !.cancelled = TRUE]
    /\ pool' = [pool EXCEPT !.cancelled = TRUE]
    /\ UNCHANGED <<sessVars, jobVars, busVars, delay, rpc, fetch, sweep, lsn, mutex>>

\* Start wakes from <-ctx.Done() and calls workerPool.Stop(shutdownCtx)
StartCallsStop ==
    /\ service.cancelled
    /\ service.start = "running"
    /\ pool.stop = "none"
    /\ service' = [service EXCEPT !.start = "stopping"]
    /\ pool' = [pool EXCEPT !.cancelled = TRUE, !.stop = "waiting"]
    /\ UNCHANGED <<sessVars, jobVars, busVars, delay, rpc, fetch, sweep, lsn, mutex>>

\* runRetryScheduler's select finds ctx done while it waits for the ticker
runRetrySchedulerReturn ==
    /\ service.cancelled
    /\ service.scheduler = "running"
    /\ ticker = "waiting"
    /\ service' = [service EXCEPT !.scheduler = "exited"]
    /\ UNCHANGED <<sessVars, jobVars, busVars, auxVars, lsn, mutex>>

\* runHealthMonitor's select finds ctx done
runHealthMonitorReturn ==
    /\ service.cancelled
    /\ service.monitor = "running"
    /\ service' = [service EXCEPT !.monitor = "exited"]
    /\ UNCHANGED <<sessVars, jobVars, busVars, auxVars, lsn, mutex>>

\* Start after Stop has returned: on an error it returns the error at once,
\* otherwise it returns when wg.Wait() has
StartMayReturn(S, P) ==
    \/ P.stop = "deadline"
    \/ /\ P.stop = "nil"
       /\ S.scheduler = "exited"
       /\ S.monitor = "exited"

StartReturn ==
    /\ service.start = "stopping"
    /\ StartMayReturn(service, pool)
    /\ service' = [service EXCEPT !.start = "returned"]
    /\ UNCHANGED <<sessVars, jobVars, busVars, auxVars, lsn, mutex>>

(***************************************************************************)
(* WorkerService.runRetryScheduler and processRetryableJobs.               *)
(***************************************************************************)
\* the loop over the fetched jobs: results[id] = <<UpdateStatus ok, Enqueue ok>>
RECURSIVE RetryLoop(_, _, _, _)
RetryLoop(found, results, J, Q) ==
    IF found = <<>> THEN [jobs |-> J, queue |-> Q]
    ELSE LET id == Head(found) IN
         IF ~results[id][1]
         THEN RetryLoop(Tail(found), results, J, Q)
         ELSE RetryLoop(Tail(found), results,
                        UpdateStatus(J, id, Pending, ""),
                        IF results[id][2] THEN Enqueue(Q, jobs[id]) ELSE Q)

runRetryScheduler ==
    /\ ticker = "waiting"
    /\ ticker' = "due"
    /\ UNCHANGED <<jobs, queue, processing, retrySchedule, worker, stats, tally, reply>>
    /\ UNCHANGED <<sessVars, busVars, auxVars, ctlVars>>

processRetryableJobs(outcomes) ==
    /\ ticker = "due"
    /\ ticker' = "waiting"
    /\ \E fetched \in outcomes :
         IF ~fetched
         THEN /\ UNCHANGED <<jobs, queue, retrySchedule>>
              /\ sweep' = [fetched |-> FALSE, results |-> <<>>]
         ELSE LET found == GetRetryableJobs(jobs, Now - RetryAge)
                  ids == {found[k] : k \in DOMAIN found}
              IN \E results \in [ids -> outcomes \X outcomes] :
                    /\ sweep' = [fetched |-> TRUE, results |-> results]
                    /\ jobs' = RetryLoop(found, results, jobs, queue).jobs
                    /\ queue' = RetryLoop(found, results, jobs, queue).queue
                    /\ retrySchedule' =
                          retrySchedule \cup
                             {id \in ids : /\ results[id][1] /\ results[id][2]
                                           /\ After(jobs[id].scheduled_at, Now)}
    /\ UNCHANGED <<processing, worker, stats, tally, reply>>
    /\ UNCHANGED <<sessVars, busVars, delay, pool, rpc, fetch, ctlVars>>

\* one unit of time passes: every stored timestamp is one unit older
ClockTick ==
    /\ jobs' = [j \in DOMAIN jobs |->
                   [jobs[j] EXCEPT !.scheduled_at = Elapse(@),
                                   !.started_at = Elapse(@),
                                   !.completed_at = Elapse(@),
                                   !.updated_at = Elapse(@)]]
    /\ UNCHANGED <<queue, processing, retrySchedule, worker, stats, ticker, tally, reply>>
    /\ UNCHANGED <<sessVars, busVars, auxVars, ctlVars>>

(***************************************************************************)
(* The SQS listener and its JobManagerBridge.                              *)
(***************************************************************************)
Claim == "claim"
KYCVerificationEvent == "kyc.verification"
\* an event type convertEventTypeToJobType has no case for
OtherEvent == "user.signup"

\* a JSON value as json.Unmarshal gives it to an interface{}
JSONObject(fields) == [kind |-> "object", fields |-> fields]
JSONString == [kind |-> "string", fields |-> EmptyMap]
ExtPayload == [user |-> "ext1"]

\* a message body: json is FALSE for a body json.Unmarshal rejects; a missing
\* or null payload is Null
SqsMessage(type, payload) == [json |-> TRUE, Type |-> type, Payload |-> payload]
NotJSON == [json |-> FALSE, Type |-> "", Payload |-> Null]

MessageBodies ==
    { NotJSON,
      SqsMessage("", {JSONObject(ExtPayload)}),
      SqsMessage(Claim, Null),
      SqsMessage(Claim, {JSONString}),
      SqsMessage(Claim, {JSONObject(ExtPayload)}),
      SqsMessage(KYCVerificationEvent, {JSONObject(ExtPayload)}),
      SqsMessage(OtherEvent, {JSONObject(ExtPayload)}) }

\* errors of processMessage: "" is nil
ErrUnmarshal == "failed to unmarshal SQS message"
ErrMissingType == "message missing required 'type' field"
ErrMissingPayload == "message missing required 'payload' field"
ErrConvertPayload == "failed to unmarshal payload"
ErrDeleteProcessed == "failed to delete processed message"

validateMessage(sqsMessage) ==
    IF sqsMessage.Type = "" THEN ErrMissingType
    ELSE IF sqsMessage.Payload = Null THEN ErrMissingPayload
    ELSE ""

\* the error parseMessage returns for a body
parseMessage(body) ==
    IF ~body.json THEN ErrUnmarshal ELSE validateMessage(body)

\* convertPayloadToMap: only a JSON object unmarshals into a map
convertPayloadToMap(payload) ==
    LET value == CHOOSE v \in payload : TRUE IN
    IF value.kind = "object" THEN {value.fields} ELSE Null

addSQSMetadata(payload, messageID) ==
    ("_sqs_metadata" :> [sqs_message_id |-> messageID]) @@ payload

\* the entity.Job createJobFromMessage builds: only Type and Payload are set,
\* every other field has Go's zero value
createJobFromMessage(sqsMessage, messageID) ==
    [Type |-> sqsMessage.Type,
     Payload |-> addSQSMetadata(CHOOSE p \in convertPayloadToMap(sqsMessage.Payload) : TRUE,
                                messageID),
     Priority |-> 0, Attempts |-> 0, MaxAttempts |-> 0]

convertEventTypeToJobType(eventType) ==
    CASE eventType = Claim -> InitClaim
      [] eventType = KYCVerificationEvent -> KYCVerification
      [] OTHER -> eventType

\* the request JobManagerBridge.HandleMessage passes to CreateJob
HandleMessageRequest(sqsEvent) ==
    CreateJobRequest(convertEventTypeToJobType(sqsEvent.Type),
                     sqsEvent.Priority,
                     {("_sqs_source" :> [original_event_type |-> sqsEvent.Type])
                          @@ sqsEvent.Payload},
                     sqsEvent.MaxAttempts,
                     Null)

\* fmt.Errorf("failed to create job via job manager: %w", err)
HandleMessageError(err) ==
    CASE err = NoErr -> ""
      [] err = ErrTypeRequired -> "failed to create job via job manager: job type is required"
      [] err = ErrCreateFailed -> "failed to create job via job manager: failed to create job"
      [] err = ErrEnqueueFailed -> "failed to create job via job manager: failed to enqueue job"

shouldRetry(job, errText) ==
    IF job.Attempts >= job.MaxAttempts THEN FALSE
    ELSE IF errText \in {"invalid_payload", "malformed_data", "authentication_failed"}
    THEN FALSE
    ELSE TRUE

\* a job row whose payload carries the id of message m
Carries(job, m) ==
    /\ "_sqs_metadata" \in DOMAIN job.payload
    /\ job.payload["_sqs_metadata"].sqs_message_id = m

JobsOf(J, m) == {j \in DOMAIN J : Carries(J[j], m)}

\* a deleteMessage that sends nothing to the broker
deleteMessage_NotSent(B, m, deleted) == B

\* the broker after deleteMessage on message m: the message is gone if
\* DeleteMessage succeeded
deleteMessage(B, m, deleted) ==
    [B EXCEPT ![m].deleted = deleted, ![m].acked = TRUE]

NewMessage(body) ==
    [body |-> body, deleted |-> FALSE, handled |-> FALSE, err |-> "",
     acked |-> FALSE, late |-> FALSE]

\* processMessage on message m in state S = [jobs, queue, reply, broker];
\* out tells which of jobRepo.Create, queue.Enqueue and DeleteMessage succeed
processMessage(S, m, out) ==
    LET body == S.broker[m].body
        received == [S.broker EXCEPT
                        ![m].handled = TRUE,
                        ![m].acked = FALSE,
                        ![m].late = @ \/ \E j \in JobsOf(S.jobs, m) :
                                              S.jobs[j].status = Completed]
    IN
    IF parseMessage(body) # ""
    THEN [S EXCEPT !.broker = [deleteMessage(received, m, out.deleted)
                                   EXCEPT ![m].err = parseMessage(body)]]
    ELSE IF convertPayloadToMap(body.Payload) = Null
    THEN [S EXCEPT !.broker = [deleteMessage(received, m, out.deleted)
                                   EXCEPT ![m].err = ErrConvertPayload]]
    ELSE
    LET eventJob == createJobFromMessage(body, m)
        req == HandleMessageRequest(eventJob)
        result == CreateJobResult(S.jobs, S.queue, req, out.created, out.enqueued)
        err == HandleMessageError(CreateJobError(req, out.created, out.enqueued))
        handled == [S EXCEPT !.jobs = result.jobs,
                             !.queue = result.queue,
                             !.reply = Reply(S.jobs, req, out.created, out.enqueued)]
    IN
    IF err # ""
    THEN IF shouldRetry(eventJob, err)
         THEN [handled EXCEPT !.broker = [received EXCEPT ![m].err = err]]
         ELSE [handled EXCEPT !.broker = [deleteMessage(received, m, out.deleted)
                                              EXCEPT ![m].err = err]]
    ELSE [handled EXCEPT
             !.broker = [deleteMessage(received, m, out.deleted)
                             EXCEPT ![m].err = IF out.deleted THEN ""
                                               ELSE ErrDeleteProcessed]]

\* pollMessages' loop over the received messages; it goes on after an error
RECURSIVE PollLoop(_, _, _)
PollLoop(S, messages, outs) ==
    IF messages = <<>> THEN S
    ELSE PollLoop(processMessage(S, Head(messages), outs[Head(messages)]),
                  Tail(messages), outs)

\* the ids of a set of messages in the order the broker returns them
RECURSIVE InOrder(_)
InOrder(ids) ==
    IF ids = {} THEN <<>>
    ELSE LET first == CHOOSE i \in ids : \A k \in ids : i <= k
         IN <<first>> \o InOrder(ids \ {first})

BusStart ==
    /\ broker = <<>>
    /\ listener = [received |-> 0, batch |-> {}]

\* a producer's SendMessage
Publish ==
    /\ Len(broker) < MaxMessages
    /\ \E body \in MessageBodies : broker' = Append(broker, NewMessage(body))
    /\ UNCHANGED listener
    /\ UNCHANGED <<sessVars, jobVars, auxVars, ctlVars>>

\* one pollMessages call of a listener worker that received messages:
\* ReceiveMessages returns some of the messages that are not deleted (a
\* message received before is visible again once its visibility timeout has
\* run out)
pollMessages(outcomes) ==
    /\ \E batch \in SUBSET {m \in DOMAIN broker : ~broker[m].deleted} :
         /\ batch # {}
         /\ listener.received + Cardinality(batch) <= MaxDeliveries
         /\ listener' = [received |-> listener.received + Cardinality(batch),
                         batch |-> batch]
         /\ \E outs \in [batch -> [created : outcomes, enqueued : outcomes,
                                    deleted : outcomes]] :
              LET after == PollLoop([jobs |-> jobs, queue |-> queue,
                                     reply |-> reply, broker |-> broker],
                                    InOrder(batch), outs)
              IN /\ jobs' = after.jobs
                 /\ queue' = after.queue
                 /\ reply' = after.reply
                 /\ broker' = after.broker
                 /\ tally' = Tallied(tally, after.jobs)
    /\ UNCHANGED <<processing, retrySchedule, worker, stats, ticker>>
    /\ UNCHANGED <<sessVars, auxVars, ctlVars>>

(***************************************************************************)
(* Calls of the two retry-delay functions.                                 *)
(***************************************************************************)
AttemptInputs == (0 - 2)..MaxAttemptsInput

NoDelay == [attempts |-> 0, conv |-> Zero, called |-> FALSE,
            pool |-> Zero, sqs |-> Zero]

\* no redisQueue operation has been called directly
NoCommand == [op |-> "none", replies |-> <<"ok">>, sent |-> 0, ok |-> TRUE]

AuxStart ==
    /\ delay = NoDelay
    /\ rpc = NoCommand
    /\ fetch = NoFetch
    /\ sweep = NoSweep

\* the arguments of a call that has not been made yet
DelayInputs ==
    /\ rpc = NoCommand
    /\ fetch = NoFetch
    /\ sweep = NoSweep
    /\ delay \in {[NoDelay EXCEPT !.attempts = a, !.conv = c] :
                     a \in AttemptInputs, c \in OutOfRange}

RetryDelays ==
    /\ ~delay.called
    /\ delay' = [delay EXCEPT
                    !.called = TRUE,
                    !.pool = calculateRetryDelay(delay.attempts, delay.conv),
                    !.sqs = CalculateRetryDelay(delay.attempts, delay.conv)]
    /\ UNCHANGED <<sessVars, jobVars, busVars, pool, rpc, fetch, sweep, ctlVars>>

(***************************************************************************)
(* The redisQueue operations called one at a time against a broker that    *)
(* may answer an attempt with a transient error.                           *)
(***************************************************************************)
\* what the broker would answer to the first and to a second attempt
BrokerReplies == {<<"ok">>, <<"err", "ok">>, <<"err", "err">>}

\* every operation sends its command (or its pipeline) once and returns the
\* error of that attempt
redisCall(op, replies) ==
    [op |-> op, replies |-> replies, sent |-> 1, ok |-> replies[1] = "ok"]

\* the jobs the direct calls enqueue: one due at once and one scheduled later
QueueJobs ==
    {JobEntity(id, req) :
        id \in 1..MaxQueued,
        req \in {CreateJobRequest(InitClaim, PriorityHigh, {UserPayload}, 3, Null),
                 CreateJobRequest(CompleteClaim, PriorityNormal, {UserPayload}, 1,
                                  {Now + 1})}}

callEnqueue ==
    /\ Len(queue) < MaxQueued
    /\ \E job \in QueueJobs, replies \in BrokerReplies :
         /\ rpc' = redisCall("Enqueue", replies)
         /\ queue' = IF rpc'.ok THEN Enqueue(queue, job) ELSE queue
         /\ retrySchedule' = IF rpc'.ok THEN EnqueueRetrySet(retrySchedule, job)
                              ELSE retrySchedule
    /\ UNCHANGED <<jobs, processing, worker, stats, ticker, tally, reply>>
    /\ UNCHANGED <<sessVars, busVars, delay, pool, fetch, sweep, ctlVars>>

callDequeue ==
    /\ queue # <<>>
    /\ \E replies \in BrokerReplies :
         /\ rpc' = redisCall("Dequeue", replies)
         /\ queue' = IF rpc'.ok THEN DequeueRest(queue) ELSE queue
    /\ UNCHANGED <<jobs, processing, retrySchedule, worker, stats, ticker, tally, reply>>
    /\ UNCHANGED <<sessVars, busVars, delay, pool, fetch, sweep, ctlVars>>

callMarkProcessing ==
    /\ \E jobID \in 1..MaxQueued, replies \in BrokerReplies :
         /\ rpc' = redisCall("MarkProcessing", replies)
         /\ processing' = IF rpc'.ok THEN MarkProcessing(processing, jobID)
                           ELSE processing
    /\ UNCHANGED <<jobs, queue, retrySchedule, worker, stats, ticker, tally, reply>>
    /\ UNCHANGED <<sessVars, busVars, delay, pool, fetch, sweep, ctlVars>>

callMarkCompleted ==
    /\ \E jobID \in 1..MaxQueued, replies \in BrokerReplies :
         /\ rpc' = redisCall("MarkCompleted", replies)
         /\ processing' = IF rpc'.ok THEN MarkCompleted(processing, jobID)
                           ELSE processing
    /\ UNCHANGED <<jobs, queue, retrySchedule, worker, stats, ticker, tally, reply>>
    /\ UNCHANGED <<sessVars, busVars, delay, pool, fetch, sweep, ctlVars>>

callMarkFailed ==
    /\ \E jobID \in 1..MaxQueued, retryDelay \in {Zero, Seconds(30)},
          replies \in BrokerReplies :
         /\ rpc' = redisCall("MarkFailed", replies)
         /\ processing' = IF rpc'.ok THEN processing \ {jobID} ELSE processing
         /\ retrySchedule' = IF rpc'.ok /\ Greater(retryDelay, Zero)
                              THEN retrySchedule \cup {jobID}
                              ELSE retrySchedule
    /\ UNCHANGED <<jobs, queue, worker, stats, ticker, tally, reply>>
    /\ UNCHANGED <<sessVars, busVars, delay, pool, fetch, sweep, ctlVars>>

callGetQueueDepth ==
    /\ \E replies \in BrokerReplies : rpc' = redisCall("GetQueueDepth", replies)
    /\ UNCHANGED <<sessVars, jobVars, busVars, delay, pool, fetch, sweep, ctlVars>>

(***************************************************************************)
(* The repository's queries over a jobs table that earlier operations have *)
(* filled.                                                                 *)
(***************************************************************************)
\* the tables of one to MaxRows rows taken from rows, ids in order of creation
Tables(rows) ==
    UNION {{[i \in 1..n |-> [t[i] EXCEPT !.id = i]] : t \in [1..n -> rows]} :
              n \in 1..MaxRows}

\* the engine at rest over such a table
TableStart(rows) ==
    /\ pool = RunningPool
    /\ jobs \in Tables(rows)
    /\ queue = <<>>
    /\ processing = {}
    /\ retrySchedule = {}
    /\ worker = [w \in Workers |-> IdleWorker]
    /\ stats = [ActiveWorkers |-> 0, ProcessingJobs |-> 0,
                TotalProcessed |-> 0, TotalFailed |-> 0]
    /\ ticker = "waiting"
    /\ tally = Tallied(<<>>, jobs)
    /\ reply = NoReply

\* rows that differ in what GetPendingJobs reads: status, deleted_at,
\* scheduled_at and priority
PendingRows ==
    {[Job(0, InitClaim, priority, EmptyMap, DefaultMaxAttempts, scheduledAt)
         EXCEPT !.status = status, !.deleted_at = deletedAt] :
        priority \in {PriorityLow, PriorityHigh},
        scheduledAt \in {Null, {Now - 1}, {Now}, {Now + 1}},
        status \in {Pending, Failed},
        deletedAt \in {Null, {Now - 1}}}

\* rows that differ in what GetRetryableJobs reads: status, attempts against
\* max_attempts, updated_at and deleted_at
RetryRows ==
    {[Job(0, Boom, PriorityNormal, EmptyMap, maxAttempts, Null)
         EXCEPT !.status = status, !.attempts = 1, !.error = "boom",
                !.updated_at = updatedAt, !.deleted_at = deletedAt] :
        maxAttempts \in {1, DefaultMaxAttempts},
        status \in {Failed, Retrying},
        updatedAt \in {{Now}, {Now - RetryAge}, {Oldest}},
        deletedAt \in {Null, {Now - 1}}}

\* a caller's GetPendingJobs(ctx, limit)
GetPendingJobsCall ==
    /\ ~fetch.called
    /\ fetch' = [fetch EXCEPT !.called = TRUE,
                              !.rows = GetPendingJobs(jobs, fetch.limit)]
    /\ UNCHANGED <<sessVars, jobVars, busVars, delay, pool, rpc, sweep, ctlVars>>

(***************************************************************************)
(* Specifications.                                                         *)
(***************************************************************************)
SessInit ==
    /\ AuxStart
    /\ variant \in {"rotating", "static"}
    /\ SessStart
    /\ CtlStart
    /\ JobStart
    /\ BusStart

SessNext ==
    \/ \E c \in Callers : Login(c)
    \/ \E c \in Callers : InsertRevokeByToken(c)
    \/ \E c \in Callers : InsertRevokeByUserID(c)
    \/ \E c \in Callers : InsertRow(c)
    \/ \E c \in Callers : LoginReturn(c)
    \/ \E c \in Callers : RefreshTokenRotating(c)
    \/ \E c \in Callers : RefreshRevokeOld(c)
    \/ \E c \in Callers : RefreshTokenStatic(c)
    \/ \E c \in Callers : RefreshReturn(c)
    \/ \E c \in Callers : Logout(c)
    \/ SessTick

SessSpec == SessInit /\ [][SessNext]_vars

Spec == SessSpec

\* logins and refreshes of the rotating manager alone, with room for two
\* refreshes of one login's token; every store statement free to fail
RefreshNext ==
    \/ \E c \in Callers : LoginUpTo(c, MaxRefreshTokens)
    \/ \E c \in Callers : InsertRevokeByToken(c)
    \/ \E c \in Callers : InsertRevokeByUserID(c)
    \/ \E c \in Callers : InsertRow(c)
    \/ \E c \in Callers : LoginReturn(c)
    \/ \E c \in Callers : RefreshTokenRotatingUpTo(c, MaxRefreshTokens)
    \/ \E c \in Callers : RefreshRevokeOld(c)
    \/ \E c \in Callers : RefreshReturn(c)

RefreshInit ==
    /\ AuxStart
    /\ variant = "rotating"
    /\ SessStart
    /\ CtlStart
    /\ JobStart
    /\ BusStart

RefreshSpec == RefreshInit /\ [][RefreshNext]_vars

JobInit ==
    /\ AuxStart
    /\ variant = "rotating"
    /\ SessStart
    /\ CtlStart
    /\ JobStart
    /\ BusStart

JobNext ==
    \/ Len(jobs) < MaxJobs /\ CreateJob(BOOLEAN)
    \/ \E w \in Workers : runWorker(w)
    \/ \E w \in Workers : processJob(w, BOOLEAN)
    \/ \E w \in Workers : Handle(w)
    \/ \E w \in Workers : handleJobSuccess(w, BOOLEAN)
    \/ \E w \in Workers : handleJobFailure(w, BOOLEAN)
    \/ \E w \in Workers : runWorkerDone(w)
    \/ runRetryScheduler
    \/ processRetryableJobs(BOOLEAN)
    \/ ClockTick

JobSpec == JobInit /\ [][JobNext]_vars

\* one step of worker goroutine w when no database or Redis call fails
WorkerStep(w) ==
    \/ runWorker(w)
    \/ processJob(w, {TRUE})
    \/ Handle(w)
    \/ handleJobSuccess(w, {TRUE})
    \/ handleJobFailure(w, {TRUE})
    \/ runWorkerDone(w)

ReliableJobNext ==
    \/ Len(jobs) < MaxJobs /\ CreateJob({TRUE})
    \/ \E w \in Workers : runWorker(w)
    \/ \E w \in Workers : processJob(w, {TRUE})
    \/ \E w \in Workers : Handle(w)
    \/ \E w \in Workers : handleJobSuccess(w, {TRUE})
    \/ \E w \in Workers : handleJobFailure(w, {TRUE})
    \/ \E w \in Workers : runWorkerDone(w)
    \/ runRetryScheduler
    \/ processRetryableJobs({TRUE})
    \/ ClockTick

\* every goroutine that can take a step eventually takes one, and time passes
ReliableJobSpec ==
    /\ JobInit
    /\ [][ReliableJobNext]_vars
    /\ \A w \in Workers : WF_vars(WorkerStep(w))
    /\ WF_vars(runRetryScheduler)
    /\ WF_vars(processRetryableJobs({TRUE}))
    /\ WF_vars(ClockTick)

\* the pool with callers creating jobs, and its shutdown; no database or
\* Redis call fails
ShutdownNext ==
    \/ Len(jobs) < MaxJobs /\ CreateJob({TRUE})
    \/ \E w \in Workers : WorkerStep(w)
    \/ \E w \in Workers : runWorkerReturn(w)
    \/ runStatsCollector
    \/ Stop
    \/ StopContextDone
    \/ StopReturn

\* every goroutine that can take a step eventually takes one
ShutdownSpec ==
    /\ JobInit
    /\ [][ShutdownNext]_vars
    /\ \A w \in Workers : WF_vars(WorkerStep(w) \/ runWorkerReturn(w))
    /\ WF_vars(runStatsCollector)

\* the listener's Start, one caller of Stop and the polling goroutines, with
\* producers publishing and the pollers receiving
StartStep ==
    \/ ListenerStart
    \/ ListenerSpawn
    \/ ListenerSelectDone
    \/ ListenerStartReturn

LifecycleNext ==
    \/ ListenerStart
    \/ ListenerSpawn
    \/ ListenerContextDone
    \/ ListenerSelectDone
    \/ ListenerStartReturn
    \/ ListenerStop
    \/ ListenerStopReturn
    \/ \E k \in Pollers : ListenerRunWorker(k)
    \/ \E k \in Pollers : ListenerPolled(k)
    \/ Publish
    \/ (\E k \in Pollers : lsn.poller[k] = "poll") /\ pollMessages(BOOLEAN)

\* every goroutine that can take a step eventually takes one: Start, a
\* Stop that has been called, and each poller; nothing obliges the context
\* to be cancelled
LifecycleSpec ==
    /\ JobInit
    /\ [][LifecycleNext]_vars
    /\ WF_vars(StartStep)
    /\ WF_vars(ListenerStopReturn)
    /\ \A k \in Pollers : WF_vars(ListenerRunWorker(k) \/ ListenerPolled(k))

\* the pool's workers, its stats collector and the health monitor around
\* statsMutex; no database or Redis call fails under the workers
StatsNext ==
    \/ Len(jobs) < MaxJobs /\ CreateJob({TRUE})
    \/ \E w \in Workers : LockedWorkerStep(w)
    \/ collectQueueStats
    \/ GetQueueDepth
    \/ GetQueueDepthReturn
    \/ GetStats
    \/ GetStatsReturn

StatsSpec == JobInit /\ [][StatsNext]_vars

\* the worker service around the pool: its context is cancelled and Start
\* shuts the pool down; no database or Redis call fails
ServiceNext ==
    \/ Len(jobs) < MaxJobs /\ CreateJob({TRUE})
    \/ \E w \in Workers : WorkerStep(w)
    \/ \E w \in Workers : runWorkerReturn(w)
    \/ runStatsCollector
    \/ ctxDone
    \/ StartCallsStop
    \/ StopContextDone
    \/ StopReturn
    \/ runRetrySchedulerReturn
    \/ runHealthMonitorReturn
    \/ StartReturn

ServiceSpec == JobInit /\ [][ServiceNext]_vars

\* callers enqueue up to MaxQueued jobs one after the other and the workers
\* run them; no database or Redis call fails
FifoNext ==
    \/ Len(jobs) < MaxQueued /\ CreateJob({TRUE})
    \/ \E w \in Workers : WorkerStep(w)

FifoSpec == JobInit /\ [][FifoNext]_vars

\* producers and the listener alone; the broker, the database and Redis may
\* fail
IngestNext ==
    \/ Publish
    \/ pollMessages(BOOLEAN)

IngestSpec == JobInit /\ [][IngestNext]_vars

\* producers, the listener and the workers; the broker, the database and Redis
\* may fail under the listener
ListenerNext ==
    \/ Publish
    \/ pollMessages(BOOLEAN)
    \/ \E w \in Workers : WorkerStep(w)

ListenerSpec == JobInit /\ [][ListenerNext]_vars

\* the redisQueue operations alone, each attempt free to fail
QueueNext ==
    \/ callEnqueue
    \/ callDequeue
    \/ callMarkProcessing
    \/ callMarkCompleted
    \/ callMarkFailed
    \/ callGetQueueDepth

QueueSpec == JobInit /\ [][QueueNext]_vars

\* the retry scheduler over any table of failed and retrying jobs, every
\* store and queue call free to fail
RetryInit ==
    /\ AuxStart
    /\ variant = "rotating"
    /\ SessStart
    /\ CtlStart
    /\ BusStart
    /\ TableStart(RetryRows)

RetryNext ==
    \/ runRetryScheduler
    \/ processRetryableJobs(BOOLEAN)
    \/ ClockTick

RetrySpec == RetryInit /\ [][RetryNext]_vars

\* one call of GetPendingJobs on any table and limit
PendingInit ==
    /\ delay = NoDelay
    /\ rpc = NoCommand
    /\ sweep = NoSweep
    /\ fetch \in {[NoFetch EXCEPT !.limit = limit] : limit \in 1..MaxRows}
    /\ variant = "rotating"
    /\ SessStart
    /\ CtlStart
    /\ BusStart
    /\ TableStart(PendingRows)

PendingNext == GetPendingJobsCall

PendingSpec == PendingInit /\ [][PendingNext]_vars

\* one call of each retry-delay function on any attempts value
BackoffInit ==
    /\ DelayInputs
    /\ variant = "rotating"
    /\ SessStart
    /\ CtlStart
    /\ JobStart
    /\ BusStart

BackoffNext == RetryDelays

BackoffSpec == BackoffInit /\ [][BackoffNext]_vars

(***************************************************************************)
(* Properties of the session engine.                                       *)
(***************************************************************************)
RefreshRejected(h) ==
    RefreshCheck(RefreshTokenOf(h)) \in {ErrInvalidRefreshToken, ErrRefreshTokenRevoked}

RowsOfToken(token) == {i \in DOMAIN sessions : sessions[i].token = token}

\* C1: for every user, in every reachable state of any interleaving of Login,
\* RefreshToken and Logout calls, at most one session row of the user has
\* revoked = false and deleted_at null.
C1_AtMostOneActiveSession ==
    \A u \in Users : Cardinality(ActiveRows(sessions, u)) <= 1

\* C2: when SessionRepository.Insert has returned successfully for a user and
\* no other caller stepped while it ran, the user's only non-revoked,
\* non-deleted row is the row just inserted, whatever the two revoke
\* statements returned.
C2_InsertLeavesOnlyNewRow ==
    \A c \in Callers :
        (pc[c] = "inserted" /\ solo[c]) =>
            ActiveRows(sessions, call[c].user) = RowsOfToken(hash(call[c].new))

\* C3: when RefreshToken(R1) returns successfully with R2, R2 differs from R1,
\* a RefreshToken(R1) is rejected with the invalid-refresh or revoked error, and
\* (nobody else having stepped meanwhile) a RefreshToken(R2) is accepted.
C3_RefreshRotates ==
    \A c \in Callers :
        pc[c] = "refreshed" =>
            /\ call[c].new # call[c].old
            /\ RefreshRejected(call[c].old)
            /\ solo[c] => RefreshCheck(RefreshTokenOf(call[c].new)) = NoErr

C5_DistinctValidationErrors ==
    \A h \in DOMAIN issued :
        LET token == hash(h) IN
        /\ RowsOfToken(token) = {} => validateSession(token) = ErrInvalidRefreshToken
        /\ \A i \in RowsOfToken(token) :
             /\ sessions[i].revoked => validateSession(token) = ErrRefreshTokenRevoked
             /\ (~sessions[i].revoked /\ sessions[i].expires_at < now) =>
                    validateSession(token) = ErrRefreshTokenExpired

(***************************************************************************)
(* Properties of the job lifecycle engine.                                 *)
(***************************************************************************)
\* the worker has just finished handleJobFailure and its store update succeeded
FailureStored(w) ==
    /\ worker[w].pc = "done"
    /\ worker[w].jobErr # ""
    /\ worker[w].stored

\* C6: for every job, the stored attempts never exceeds max_attempts and no
\* step of the workers, the handlers or the retry scheduler lowers it.
C6_AttemptsMonotoneAndBounded ==
    /\ [](\A j \in DOMAIN jobs : jobs[j].attempts <= jobs[j].max_attempts)
    /\ [][\A j \in DOMAIN jobs : jobs'[j].attempts >= jobs[j].attempts]_vars

\* a job whose failures have used up its attempts
C6_Witness ==
    \E j \in DOMAIN jobs :
        /\ jobs[j].status = Failed
        /\ jobs[j].attempts = jobs[j].max_attempts

\* C7: once a job's stored status is COMPLETED no step of the worker pool, the
\* retry scheduler or the job manager changes it.
C7_CompletedIsTerminal ==
    [][\A j \in DOMAIN jobs :
          jobs[j].status = Completed => jobs'[j].status = Completed]_vars

\* a completed job older than the scheduler's cutoff while a scheduler pass is due
C7_Witness ==
    \E j \in DOMAIN jobs :
        /\ jobs[j].status = Completed
        /\ \E t \in jobs[j].updated_at : t < Now - RetryAge
        /\ ticker = "due"

C9_FailureCountedOnce ==
    \A w \in Workers :
        FailureStored(w) =>
            /\ jobs[worker[w].job.id].status \in {Failed, Retrying}
            /\ jobs[worker[w].job.id].attempts = worker[w].job.attempts

\* a failure below max_attempts, stored as RETRYING
C9_Witness ==
    \E w \in Workers :
        /\ FailureStored(w)
        /\ jobs[worker[w].job.id].status = Retrying

\* C10: with no database or Redis failure, a job of max_attempts = m whose
\* handler always fails eventually is stored FAILED with attempts = m and the
\* handler's error text, the handler having run m times for it, totalFailed
\* raised m times and totalProcessed never.
C10_PermanentFailureConverges ==
    \A j \in 1..MaxJobs :
        (j \in DOMAIN jobs /\ jobs[j].type = Boom) ~>
            (/\ j \in DOMAIN jobs
             /\ jobs[j].status = Failed
             /\ jobs[j].attempts = jobs[j].max_attempts
             /\ jobs[j].error = "boom"
             /\ tally[j] = [invoked |-> jobs[j].max_attempts,
                            failed |-> jobs[j].max_attempts,
                            processed |-> 0])

\* C11: with no database or Redis failure, a job stored RETRYING whose id is in
\* the retry schedule, and whose handler fails once and succeeds afterwards, is
\* eventually handed to a worker again and stored COMPLETED, with one failure
\* and one success counted for it.
C11_RetryEventuallyCompletes ==
    \A j \in 1..MaxJobs :
        (/\ j \in DOMAIN jobs
         /\ jobs[j].type = Flaky
         /\ jobs[j].status = Retrying
         /\ j \in retrySchedule) ~>
            (/\ j \in DOMAIN jobs
             /\ jobs[j].status = Completed
             /\ tally[j].failed >= 1
             /\ tally[j].processed = 1)

\* the queue holds a copy of job j
Queued(j) == \E k \in DOMAIN queue : queue[k].id = j

\* C12: with no database or Redis failure, a successful CreateJob leaves its
\* job PENDING with attempts 0; a job becomes COMPLETED only from PROCESSING
\* with started_at set, and gets completed_at then; handleJobSuccess raises
\* totalProcessed by one and leaves totalFailed alone; and a queued job whose
\* handler succeeds is eventually stored COMPLETED, its handler having run once.
C12_HappyPath ==
    /\ [][(reply' # reply /\ reply'.err = NoErr) =>
              /\ jobs'[reply'.row].status = Pending
              /\ jobs'[reply'.row].attempts = 0]_vars
    /\ [][\A j \in DOMAIN jobs :
              (jobs[j].status # Completed /\ jobs'[j].status = Completed) =>
                  /\ jobs[j].status = Processing
                  /\ jobs[j].started_at # Null
                  /\ jobs'[j].completed_at # Null]_vars
    /\ [][\A w \in Workers :
              (worker[w].pc = "handleJobSuccess" /\ worker'[w].pc = "done") =>
                  stats' = [stats EXCEPT !.TotalProcessed = @ + 1]]_vars
    /\ \A j \in 1..MaxJobs :
          (j \in DOMAIN jobs /\ jobs[j].type = InitClaim /\ Queued(j)) ~>
              (/\ j \in DOMAIN jobs
               /\ jobs[j].status = Completed
               /\ tally[j] = [invoked |-> 1, failed |-> 0, processed |-> 1])

\* the job of the request {init_claim, HIGH, payload, 3} completed, counted once
C12_Witness ==
    \E j \in DOMAIN jobs :
        /\ jobs[j].type = InitClaim
        /\ jobs[j].priority = PriorityHigh
        /\ jobs[j].status = Completed
        /\ jobs[j].started_at # Null
        /\ jobs[j].completed_at # Null
        /\ stats.TotalProcessed = 1
        /\ stats.TotalFailed = 0

\* C18: a CreateJob call with an empty type returns the error "job type is
\* required" and changes neither the store nor the queue; a call that inserts
\* a row stores max_attempts 3 when the request's max_attempts is <= 0 and an
\* empty map when the request's payload is nil.
C18_CreateJobValidation ==
    [][reply' # reply =>
          /\ reply'.req.Type = "" =>
                /\ reply'.err = ErrTypeRequired
                /\ jobs' = jobs
                /\ queue' = queue
          /\ reply'.row # 0 =>
                /\ reply'.req.MaxAttempts <= 0 => jobs'[reply'.row].max_attempts = 3
                /\ reply'.req.MaxAttempts > 0 =>
                       jobs'[reply'.row].max_attempts = reply'.req.MaxAttempts
                /\ reply'.req.Payload = Null => jobs'[reply'.row].payload = EmptyMap]_vars

\* a request with no type was refused and nothing was stored or queued
C18_Witness ==
    /\ reply.req.Type = ""
    /\ reply.err = ErrTypeRequired
    /\ jobs = <<>>
    /\ queue = <<>>

\* C19: after a CreateJob call whose insert succeeded and whose Enqueue failed,
\* the call has returned the enqueue error, the inserted row is still there
\* PENDING with attempts 0, no queue entry and no worker holds the job, in
\* every later state.
C19_EnqueueFailureLeavesPendingRow ==
    reply.err = ErrEnqueueFailed =>
        /\ reply.row \in DOMAIN jobs
        /\ jobs[reply.row].status = Pending
        /\ jobs[reply.row].attempts = 0
        /\ ~Queued(reply.row)
        /\ \A w \in Workers : worker[w].job.id # reply.row

\* an enqueue failure followed by a retry scheduler tick
C19_Witness ==
    /\ reply.err = ErrEnqueueFailed
    /\ reply.row \in DOMAIN jobs
    /\ ticker = "due"

\* C13: rows are numbered in the order CreateJob enqueued them; whenever an
\* earlier enqueued job is still in the queue, every job enqueued after it is
\* still in the queue too, whatever the priorities of the two jobs: the
\* workers receive the jobs in the order they were enqueued.
C13_QueueIsFifo ==
    \A i, j \in DOMAIN jobs : (i < j /\ Queued(i)) => Queued(j)

\* the first job was taken while a later job of higher priority still waits
C13_Witness ==
    \E i, j \in DOMAIN jobs :
        /\ i < j
        /\ jobs[i].priority < jobs[j].priority
        /\ ~Queued(i)
        /\ Queued(j)
        /\ \E w \in Workers : worker[w].job.id = i

(***************************************************************************)
(* Properties of the SQS listener.                                         *)
(***************************************************************************)
\* a message that parses, has a type and has a payload
Valid(m) == parseMessage(broker[m].body) = ""

\* the errors of HandleMessage whose text is none of invalid_payload,
\* malformed_data and authentication_failed
TransientErrors ==
    {HandleMessageError(ErrCreateFailed), HandleMessageError(ErrEnqueueFailed)}

\* C14: when the listener has handled a valid message and the job creation
\* failed with an error whose text is not invalid_payload, malformed_data or
\* authentication_failed, the listener has not called DeleteMessage for the
\* message and the message is still in the broker.
C14_RetryableFailureNotAcked ==
    \A m \in DOMAIN broker :
        (Valid(m) /\ broker[m].err \in TransientErrors) =>
            (~broker[m].acked /\ ~broker[m].deleted)

\* C15: every valid message that has been deleted from the broker either has
\* a job row carrying its message id or was refused with a validation error;
\* none is deleted after a failure of the store or of the queue without a row.
C15_AckedMessageHasJob ==
    \A m \in DOMAIN broker :
        (Valid(m) /\ broker[m].deleted) =>
            \/ JobsOf(jobs, m) # {}
            \/ broker[m].err = ErrConvertPayload

\* a message parseMessage refuses: invalid JSON, no type, or no payload
Poison(m) == parseMessage(broker[m].body) # ""

\* C16: when the listener has handled a message that is invalid JSON, has an
\* empty type or has no payload, it has called DeleteMessage for it (the
\* message is gone unless that call failed), returned the parse or validation
\* error, and no job row and no queue entry carries the message id; and every
\* message of the batch, those after a poison message included, was handled.
C16_PoisonIsAckedAndDropped ==
    /\ \A m \in DOMAIN broker :
          (Poison(m) /\ broker[m].handled) =>
              /\ broker[m].acked
              /\ broker[m].err = parseMessage(broker[m].body)
              /\ JobsOf(jobs, m) = {}
              /\ \A k \in DOMAIN queue :
                     /\ queue[k].id \in DOMAIN jobs
                     /\ ~Carries(jobs[queue[k].id], m)
    /\ \A m \in listener.batch : broker[m].handled

\* a poison message deleted, and the valid message after it in the same batch
\* admitted as a job
C16_Witness ==
    \E m, n \in listener.batch :
        /\ m < n
        /\ Poison(m)
        /\ broker[m].deleted
        /\ JobsOf(jobs, n) # {}
        /\ queue # <<>>

\* C17: a job the listener created from a message of type "claim" or
\* "kyc.verification" has priority HIGH, and a job it created from a message
\* of any other type has priority NORMAL (no message has a Priority attribute).
C17_ListenerDefaultPriority ==
    \A m \in DOMAIN broker : \A j \in JobsOf(jobs, m) :
        jobs[j].priority =
            IF broker[m].body.Type \in {Claim, KYCVerificationEvent}
            THEN PriorityHigh
            ELSE PriorityNormal

\* C20: when a message was delivered again after a job carrying its id had
\* been stored COMPLETED, at most one job carrying that id has had its handler
\* invoked and at most one has been counted in totalProcessed.
C20_RedeliveryAfterCompletionIsIdempotent ==
    \A m \in DOMAIN broker :
        broker[m].late =>
            /\ Cardinality({j \in JobsOf(jobs, m) : tally[j].invoked > 0}) <= 1
            /\ Cardinality({j \in JobsOf(jobs, m) : tally[j].processed > 0}) <= 1

(***************************************************************************)
(* Properties of the retry-delay functions.                                *)
(***************************************************************************)
\* min(base * 2^(attempts - 1), max) in nanoseconds, for attempts >= 1 and
\* base and max in seconds
Backoff(base, max, attempts) ==
    IF attempts <= 6 /\ base * Pow2(attempts - 1) <= max
    THEN Seconds(base * Pow2(attempts - 1))
    ELSE Seconds(max)

\* C21: for every attempts >= 1, calculateRetryDelay returns
\* min(30s * 2^(attempts-1), 10min) and CalculateRetryDelay returns
\* min(30s * 2^(attempts-1), 15min), whatever the size of attempts.
C21_BackoffLaw ==
    (delay.called /\ delay.attempts >= 1) =>
        /\ delay.pool = Backoff(30, 600, delay.attempts)
        /\ delay.sqs = Backoff(30, 900, delay.attempts)

\* C22: for attempts <= 0, calculateRetryDelay returns 30s and
\* CalculateRetryDelay returns the configured base delay.
C22_BaseDelayForNoAttempts ==
    (delay.called /\ delay.attempts <= 0) =>
        /\ delay.pool = Seconds(30)
        /\ delay.sqs = BaseRetryDelay

(***************************************************************************)
(* Properties of the shutdown.                                             *)
(***************************************************************************)
\* worker w is between the dequeue of a job and the end of its bookkeeping
Busy(w) ==
    worker[w].pc \in {"processJob", "Handle", "handleJobSuccess", "handleJobFailure"}

C24_FinalizationSurvivesShutdown ==
    \A w \in Workers : \A j \in 1..MaxJobs :
       (pool.cancelled /\ Busy(w) /\ worker[w].job.id = j)
          ~> /\ j \in DOMAIN jobs
             /\ jobs[j].status \in {Completed, Failed, Retrying}
             /\ j \notin processing
             /\ ~Busy(w) /\ worker[w].pc # "done"
             /\ stats.ActiveWorkers = Cardinality({v \in Workers : Busy(v) \/ worker[v].pc = "done"})
             /\ stats.ProcessingJobs = stats.ActiveWorkers

\* the context was cancelled while a handler ran and the job is finalized
C24_Witness ==
    /\ pool.cancelled
    /\ \E w \in Workers : \E j \in DOMAIN jobs :
          /\ worker[w].pc = "done" /\ worker[w].job.id = j
          /\ jobs[j].status = Retrying
          /\ j \notin processing

(***************************************************************************)
(* Properties of processJob.                                               *)
(***************************************************************************)
\* C25: when MarkProcessing fails for a dequeued job the worker proceeds to
\* the store update and the handler: every step that leaves processJob's
\* first part goes on to the handler lookup.
C25_MarkProcessingFailureProceeds ==
    [][\A w \in Workers :
          (worker[w].pc = "processJob" /\ worker'[w].pc # "processJob")
             => worker'[w].pc = "Handle"]_vars

\* C27: a dequeued job whose type has no registered handler takes the
\* failure path: no handler is invoked, the error is not empty, totalFailed
\* grows by one and, when the store update succeeds, the stored attempts
\* grows by one and the stored status is RETRYING if attempts is below
\* max_attempts and FAILED otherwise, with a non-empty error message.
C27_NoHandlerTakesFailurePath ==
    [][\A w \in Workers :
          LET job == worker[w].job IN
          /\ (worker[w].pc = "Handle" /\ worker'[w].pc # "Handle"
               /\ job.type \notin Registered)
                 => /\ worker'[w].pc = "handleJobFailure"
                    /\ worker'[w].jobErr # ""
                    /\ tally' = tally
          /\ (worker[w].pc = "handleJobFailure" /\ worker'[w].pc = "done"
               /\ job.type \notin Registered)
                 => /\ stats'.TotalFailed = stats.TotalFailed + 1
                    /\ tally'[job.id].invoked = tally[job.id].invoked
                    /\ worker'[w].stored =>
                          /\ jobs'[job.id].attempts = jobs[job.id].attempts + 1
                          /\ jobs'[job.id].status =
                                IF jobs'[job.id].attempts < jobs'[job.id].max_attempts
                                THEN Retrying ELSE Failed
                          /\ jobs'[job.id].error # ""]_vars

\* a job of an unregistered type whose only attempt has failed without a
\* handler call
C27_Witness ==
    \E w \in Workers : \E j \in DOMAIN jobs :
       /\ worker[w].pc = "done" /\ worker[w].job.id = j
       /\ jobs[j].type \notin Registered
       /\ jobs[j].status = Failed /\ jobs[j].attempts = 1
       /\ jobs[j].error # ""
       /\ tally[j].invoked = 0 /\ tally[j].failed = 1

(***************************************************************************)
(* Properties of scheduled jobs.                                           *)
(***************************************************************************)
\* C28: a job created with scheduled_at in the future is not handed to a
\* handler before scheduled_at: in every step in which a handler is invoked
\* for job j, the stored scheduled_at of j is absent or not after the
\* present instant.
C28_DelayedVisibility ==
    [][\A j \in DOMAIN jobs :
          tally'[j].invoked > tally[j].invoked
             => ~After(jobs[j].scheduled_at, Now)]_vars

(***************************************************************************)
(* Properties of the redisQueue operations.                                *)
(***************************************************************************)
\* C26: an operation that hits a transient broker error is attempted a
\* second time before it returns an error, and one transient error followed
\* by a success gives a successful result.
C26_TransientErrorRetriedOnce ==
    rpc.op # "none" =>
       /\ ~rpc.ok => rpc.sent >= 2
       /\ rpc.replies = <<"err", "ok">> => rpc.ok

(***************************************************************************)
(* Properties of the repository's queries.                                 *)
(***************************************************************************)
\* row j is PENDING, not soft-deleted and its scheduled_at is absent or not
\* later than now
Due(j) ==
    /\ jobs[j].status = Pending
    /\ jobs[j].deleted_at = Null
    /\ \A t \in jobs[j].scheduled_at : t <= Now

\* C29: GetPendingJobs returns only rows that are PENDING, not soft-deleted
\* and scheduled for now or earlier (or unscheduled), returns no row twice,
\* and returns all such rows up to the limit.
C29_GetPendingJobsFilter ==
    fetch.called =>
       LET returned == {fetch.rows[k] : k \in DOMAIN fetch.rows}
           due == {j \in DOMAIN jobs : Due(j)}
       IN /\ returned \subseteq due
          /\ Cardinality(returned) = Len(fetch.rows)
          /\ Len(fetch.rows) = IF Cardinality(due) < fetch.limit
                                THEN Cardinality(due) ELSE fetch.limit

\* a call that returned a due row and left out a row scheduled later
C29_Witness ==
    /\ fetch.called
    /\ fetch.rows # <<>>
    /\ Len(fetch.rows) < fetch.limit
    /\ \E j \in DOMAIN jobs :
          /\ jobs[j].status = Pending /\ jobs[j].deleted_at = Null
          /\ jobs[j].scheduled_at = {Now + 1}

\* how many entries of the ready list carry job j
Count(Q, j) == Cardinality({k \in DOMAIN Q : Q[k].id = j})

\* row j is FAILED with attempts left and was last updated more than five
\* minutes ago
Retryable(j) ==
    /\ jobs[j].status = Failed
    /\ jobs[j].attempts < jobs[j].max_attempts
    /\ jobs[j].updated_at # Null
    /\ \A t \in jobs[j].updated_at : t < Now - RetryAge

\* C30: on a tick the retry scheduler changes or enqueues a job only if the
\* job is FAILED, has attempts below max_attempts and was updated more than
\* five minutes ago; such a job is set PENDING when its status update
\* succeeds and is then enqueued exactly once when its Enqueue succeeds,
\* whatever happened to the other jobs of the tick; no job is enqueued
\* unless it was set PENDING.
C30_RetrySchedulerReadmission ==
    [][(ticker = "due" /\ ticker' = "waiting") =>
          \A j \in DOMAIN jobs :
             /\ (jobs'[j] # jobs[j] \/ Count(queue', j) # Count(queue, j))
                   => Retryable(j)
             /\ Count(queue', j) \in {Count(queue, j), Count(queue, j) + 1}
             /\ Count(queue', j) > Count(queue, j) => jobs'[j].status = Pending
             /\ (Retryable(j) /\ jobs[j].deleted_at = Null /\ sweep'.fetched) =>
                   /\ sweep'.results[j][1] => jobs'[j].status = Pending
                   /\ (sweep'.results[j][1] /\ sweep'.results[j][2])
                         => Count(queue', j) = Count(queue, j) + 1]_vars

\* a tick on which the status update of the first job failed and the next
\* job was re-admitted all the same
C30_Witness ==
    /\ sweep.fetched
    /\ \E i, j \in DOMAIN sweep.results :
          /\ i < j
          /\ ~sweep.results[i][1]
          /\ jobs[i].status = Failed /\ jobs[i].updated_at = {Oldest}
          /\ sweep.results[j] = <<TRUE, TRUE>>
          /\ jobs[j].status = Pending
          /\ Count(queue, j) = 1 /\ Count(queue, i) = 0

(***************************************************************************)
(* Properties of the processing set and of the pool's statistics.          *)
(***************************************************************************)
\* worker w is between incrementActiveWorkers and decrementActiveWorkers
Active(w) == Busy(w) \/ worker[w].pc = "done"

\* C35: each job id appears at most once across the ready list and the
\* processing set, and no two workers hold the same job at the same time.
C35_JobHeldOnce ==
    /\ \A j \in DOMAIN jobs :
          Count(queue, j) + (IF j \in processing THEN 1 ELSE 0) <= 1
    /\ \A v, w \in Workers :
          (v # w /\ Active(v) /\ Active(w)) => worker[v].job.id # worker[w].job.id

\* a worker is executing a job while a retry scheduler tick is due
C35_Witness ==
    /\ processing # {}
    /\ ticker = "due"
    /\ \E w \in Workers : worker[w].pc = "Handle" /\ worker[w].job.id \in processing

\* C39: when the queue operations succeed, a job id is in the processing set
\* only while a worker is executing that job: it is in the set when the
\* handler is looked up and invoked, it has left the set when
\* handleJobSuccess or handleJobFailure has returned, and the set is empty
\* whenever all workers are idle.
C39_ProcessingSetTracksWorkers ==
    /\ \A j \in processing :
          \E w \in Workers :
             /\ worker[w].pc \in {"Handle", "handleJobSuccess", "handleJobFailure"}
             /\ worker[w].job.id = j
    /\ \A w \in Workers :
          worker[w].pc \in {"Handle", "handleJobSuccess", "handleJobFailure"}
             => worker[w].job.id \in processing
    /\ (\A w \in Workers : worker[w].pc = "idle") => processing = {}

\* both workers are executing a job
C39_Witness ==
    /\ Cardinality(processing) = 2
    /\ \A w \in Workers : worker[w].pc \in {"Handle", "handleJobSuccess", "handleJobFailure"}

\* C40: ActiveWorkers lies between 0 and the number of workers, equals
\* ProcessingJobs and the number of workers between incrementActiveWorkers
\* and decrementActiveWorkers, and TotalProcessed and TotalFailed never
\* decrease.
C40_StatsConsistent ==
    /\ [](/\ 0 <= stats.ActiveWorkers
          /\ stats.ActiveWorkers <= Cardinality(Workers)
          /\ stats.ProcessingJobs = stats.ActiveWorkers
          /\ stats.ActiveWorkers = Cardinality({w \in Workers : Active(w)}))
    /\ [][/\ stats'.TotalProcessed >= stats.TotalProcessed
          /\ stats'.TotalFailed >= stats.TotalFailed]_vars

\* both workers are active and a job has already failed
C40_Witness ==
    /\ stats.ActiveWorkers = 2
    /\ stats.TotalProcessed + stats.TotalFailed >= 1

C36_OneRefreshPerToken ==
    \A c, d \in Callers :
       (c # d /\ pc[c] = "refreshed" /\ pc[d] = "refreshed")
          => call[c].old # call[d].old

\* C37: when a RefreshToken(R) that no other call interleaved with returns
\* an error, the session rows are those the call found and R is still
\* accepted.
C37_FailedRefreshChangesNothing ==
    [][\A c \in Callers : \A h \in {call[c].old} : \A before \in {call[c].before} :
          (/\ call[c].op = "refresh"
           /\ pc[c] \notin {"idle", "refreshed"}
           /\ pc'[c] = "idle"
           /\ solo[c])
             => /\ sessions' = before
                /\ (validateSession(hash(h)))' = NoErr]_vars

C34_StartWaitsForGoroutines ==
    service.start = "returned" =>
       /\ service.scheduler = "exited"
       /\ service.monitor = "exited"

\* C31: no goroutine that holds statsMutex, for writing or for reading, is
\* inside a queue or store call.
C31_NoIOUnderStatsLock ==
    \A t \in Threads :
       (mutex.writer = t \/ t \in mutex.readers) => mutex.at[t] # "io"

(***************************************************************************)
(* Properties of the listener's life cycle.                                *)
(***************************************************************************)
\* C32: once Stop has read a true running flag, the listener eventually is
\* not running, with every polling goroutine exited and Start returned.
C32_StopIsNeverLost ==
    (lsn.stop = "send")
       ~> (/\ ~lsn.running
           /\ lsn.start = "returned"
           /\ \A k \in Pollers : lsn.poller[k] = "exited")

=============================================================================
